---------------------------- MODULE Spec2Model ----------------------------
(***************************************************************************)
(* PC-Lab-Booking: the booking store, the conflict detectors, the policy   *)
(* validation of Booking.clean, the lifecycle handlers of bookings/views,  *)
(* the policy-exception flow and the recurrence service, as a state        *)
(* machine.  Time is counted in ticks; DayLen ticks make one calendar day. *)
(***************************************************************************)
EXTENDS Integers, Sequences, FiniteSets, TLC

\* ------------------------------------------------------------------ bounds
MaxBookings == 2
MaxExceptions == 1
MaxStart == 1
MaxDur == 2
MaxNow == 1
NumDays == 1
NumRequests == 2
DayLen == 4
MaxOccurrences == 3
MaxUntil == 60
MaxQueryDate == 2
MaxHalfSlots == 8
MaxPolicyStart == 9
MaxPolicyDur == 3
MaxAudit == 2
MaxHops == 3
MaxOtps == 3
MaxSiteNow == 2
OtpLife == 1

\* ------------------------------------------------------- reference data
None == "none"
UserSeq == <<"stu", "tech", "mgr", "root">>
Users == {UserSeq[i] : i \in DOMAIN UserSeq}
Labs == {"L1", "L2"}

role(u) ==
    CASE u = "stu" -> "student"
      [] u = "tech" -> "lab_technician"
      [] u = "mgr" -> "manager"
      [] u = "lect" -> "lecturer"
      [] u = "padm" -> "program_admin"
      [] u = "its" -> "it_support"
      [] OTHER -> "student"

is_superuser(u) == u = "root"

user_is_admin_role(user) ==
    \/ is_superuser(user)
    \/ role(user) \in {"program_admin", "lab_technician", "it_support",
                       "it_admin", "manager", "lecturer"}

\* Variant: user_can_approve without the programme administrator.
user_can_approve_senior_only(user) ==
    \/ is_superuser(user)
    \/ role(user) \in {"manager", "lecturer"}

user_can_approve(user) ==
    \/ is_superuser(user)
    \/ role(user) \in {"program_admin", "manager", "lecturer"}

BOOKING_STATUS == {"pending", "approved", "rejected", "cancelled", "completed"}

NoPolicy ==
    [is_active |-> FALSE, max_hours |-> 0, advance_notice_days |-> 0,
     max_advance_booking_days |-> 0, work_start_hour |-> 0, work_end_hour |-> 0]

\* Two active policies, in ticks.  The first: working window 1..3 of every
\* day, at most one tick per booking, no notice period, bookable one day
\* ahead.  The second: working window 1..2, at most two ticks, one day of
\* notice, bookable one day ahead.
Policies ==
    {[is_active |-> TRUE, max_hours |-> 1, advance_notice_days |-> 0,
      max_advance_booking_days |-> 1, work_start_hour |-> 1, work_end_hour |-> 3],
     [is_active |-> TRUE, max_hours |-> 2, advance_notice_days |-> 1,
      max_advance_booking_days |-> 1, work_start_hour |-> 1, work_end_hour |-> 2]}

VARIABLES bookings, exceptions, policy, now, sent, lastOp, requests,
          audit, accounts, otps, session, location

\* The audit table (bookings.AuditLog), and the state of the users app: the
\* accounts, the EmailOTP table, the browser session and the page the browser
\* is at.
site == <<accounts, otps, session, location>>

vars == <<bookings, exceptions, policy, now, sent, lastOp, requests, audit, site>>

\* The session of a browser that has not logged in, and a browser that has
\* requested nothing.
NoSession == [user |-> None, pending_email |-> None, otp_purpose |-> None]

NoPage == [url |-> None, status |-> 0, hops |-> 0]

\* The accounts before anybody has registered: one user of every role, who
\* exists and is active, and an address nobody has registered yet.
Emails == {"stu", "lect", "padm", "tech", "its", "mgr", "new"}

Registered == [exists |-> TRUE, is_active |-> TRUE, is_verified |-> TRUE]

Unregistered == [exists |-> FALSE, is_active |-> FALSE, is_verified |-> FALSE]

SiteIdle ==
    /\ accounts = [e \in Emails |-> IF e = "new" THEN Unregistered ELSE Registered]
    /\ otps = <<>>
    /\ session = NoSession
    /\ location = NoPage

\* ------------------------------------------------------------ time helpers
DateOf(t) == t \div DayLen
TimeOf(t) == t % DayLen

\* --------------------------------------------------------- conflict checks
Overlaps(b, lab, start, end) ==
    b.lab = lab /\ b.start < end /\ b.end > start

\* Variant: views.has_booking_conflict counting cancelled bookings as well.
has_booking_conflict_with_cancelled(db, lab, start, end, pk, exclude_self) ==
    \E i \in DOMAIN db :
        /\ Overlaps(db[i], lab, start, end)
        /\ db[i].status \in {"approved", "pending", "cancelled"}
        /\ ~(exclude_self /\ pk # 0 /\ i = pk)

has_booking_conflict(db, lab, start, end, pk, exclude_self) ==
    \E i \in DOMAIN db :
        /\ Overlaps(db[i], lab, start, end)
        /\ db[i].status \in {"approved", "pending"}
        /\ ~(exclude_self /\ pk # 0 /\ i = pk)

\* Variant: Booking.has_conflict counting approved bookings only.
has_conflict_approved_only(db, lab, start, end, pk) ==
    \E i \in DOMAIN db :
        /\ i # pk
        /\ db[i].status = "approved"
        /\ Overlaps(db[i], lab, start, end)

has_conflict(db, lab, start, end, pk) ==
    \E i \in DOMAIN db :
        /\ i # pk
        /\ db[i].status \notin {"cancelled", "rejected"}
        /\ Overlaps(db[i], lab, start, end)

FormOverlapping(db, lab, start, end, pk) ==
    \E i \in DOMAIN db :
        /\ Overlaps(db[i], lab, start, end)
        /\ db[i].status \notin {"cancelled", "rejected"}
        /\ ~(pk # 0 /\ i = pk)

\* ------------------------------------------------------- policy validation
\* Each validator yields "ok" or the name of the first rule that raises.
\* Variant: the time restrictions refusing the last bookable date itself.
validate_time_restrictions_horizon_exclusive(pol, t, b) ==
    IF ~pol.is_active THEN "ok"
    ELSE IF /\ (TimeOf(b.start) < pol.work_start_hour \/ TimeOf(b.end) > pol.work_end_hour)
            /\ ~b.is_policy_exception
         THEN "hours"
    ELSE IF b.start < t + pol.advance_notice_days * DayLen /\ ~b.is_policy_exception
         THEN "notice"
    ELSE IF /\ DateOf(b.start) >= DateOf(t + pol.max_advance_booking_days * DayLen)
            /\ ~b.is_policy_exception
         THEN "horizon"
    ELSE "ok"

\* Variant: the time restrictions refusing a booking that ends at work_end.
validate_time_restrictions_end_exclusive(pol, t, b) ==
    IF ~pol.is_active THEN "ok"
    ELSE IF /\ (TimeOf(b.start) < pol.work_start_hour \/ TimeOf(b.end) >= pol.work_end_hour)
            /\ ~b.is_policy_exception
         THEN "hours"
    ELSE IF b.start < t + pol.advance_notice_days * DayLen /\ ~b.is_policy_exception
         THEN "notice"
    ELSE IF /\ DateOf(b.start) > DateOf(t + pol.max_advance_booking_days * DayLen)
            /\ ~b.is_policy_exception
         THEN "horizon"
    ELSE "ok"

validate_time_restrictions(pol, t, b) ==
    IF ~pol.is_active THEN "ok"
    ELSE IF /\ (TimeOf(b.start) < pol.work_start_hour \/ TimeOf(b.end) > pol.work_end_hour)
            /\ ~b.is_policy_exception
         THEN "hours"
    ELSE IF b.start < t + pol.advance_notice_days * DayLen /\ ~b.is_policy_exception
         THEN "notice"
    ELSE IF /\ DateOf(b.start) > DateOf(t + pol.max_advance_booking_days * DayLen)
            /\ ~b.is_policy_exception
         THEN "horizon"
    ELSE "ok"

duration_hours(b) == b.end - b.start

\* Variant: the duration limit refusing a booking of exactly max_hours.
validate_against_policy_inclusive(pol, b) ==
    IF pol.is_active /\ duration_hours(b) >= pol.max_hours /\ ~b.is_policy_exception
    THEN "duration" ELSE "ok"

validate_against_policy(pol, b) ==
    IF pol.is_active /\ duration_hours(b) > pol.max_hours /\ ~b.is_policy_exception
    THEN "duration" ELSE "ok"

\* Booking.clean, run by full_clean on every save without update_fields and
\* by the model form's validation.
clean(db, pol, t, b, pk) ==
    IF b.end <= b.start THEN "end_before_start"
    ELSE IF b.start < t THEN "past"
    ELSE IF validate_time_restrictions(pol, t, b) # "ok"
         THEN validate_time_restrictions(pol, t, b)
    ELSE IF has_conflict(db, b.lab, b.start, b.end, pk) THEN "conflict"
    ELSE validate_against_policy(pol, b)

\* BookingForm.clean followed by the model validation of the form instance.
BookingForm_clean(db, t, lab, start, end, pk) ==
    IF end <= start THEN "end_before_start"
    ELSE IF start < t THEN "past"
    ELSE IF FormOverlapping(db, lab, start, end, pk) THEN "conflict"
    ELSE "ok"

\* ------------------------------------------------------------ notifications
Note(kind, to, id) == [kind |-> kind, to |-> to, booking |-> id]

AdminSeq ==
    SelectSeq(UserSeq, LAMBDA u : role(u) \in {"program_admin", "lab_technician", "manager"})

notify_booking_created(id) ==
    [i \in DOMAIN AdminSeq |-> Note("booking_created", AdminSeq[i], id)]

\* ------------------------------------------------------------------- state
NewBooking(user, lab, start, end) ==
    [requester |-> user, lab |-> lab, start |-> start, end |-> end,
     purpose |-> "lab work", status |-> "pending", approved_by |-> None,
     admin_notes |-> None, parent_booking |-> 0, is_policy_exception |-> FALSE,
     exception_reason |-> None]

Op(op, result) == [op |-> op, result |-> result]

\* What a handler does with the store it reads: its response, the store it
\* leaves, and the notifications it dispatches.
Outcome(result, db, excs, notes) ==
    [result |-> result, bookings |-> db, exceptions |-> excs, sent |-> notes]

\* A scope bounds the inputs of the requests: who acts, on which labs, with
\* which intervals and which notes, under which policy; observe says whether
\* the response of the last request (lastOp, sent) is recorded.
Intervals ==
    {<<s, e>> \in (0..MaxStart) \X (0..MaxStart + MaxDur) : e >= s /\ e <= s + MaxDur}

\* The intervals with a positive length, and one with none.
ShortIntervals == {iv \in Intervals : iv[2] <= MaxDur /\ (iv[1] = iv[2] => iv[1] = 0)}

RawNotes == {"", " ", "note"}

Scope(users, labs, ivs, notes, policies, observe) ==
    [users |-> users, labs |-> labs, ivs |-> ivs, notes |-> notes,
     policies |-> policies, observe |-> observe]

\* A request in flight: which handler runs it, where the handler stands, its
\* inputs, the booking row it loaded (seen), its response and what it sent.
Idle ==
    [kind |-> "none", pc |-> "idle", user |-> None, lab |-> None, start |-> 0,
     end |-> 0, id |-> 0, seen |-> None, result |-> None, sent |-> <<>>]

InitIn(sc) ==
    /\ bookings = <<>>
    /\ exceptions = <<>>
    /\ policy \in sc.policies
    /\ now = 0
    /\ sent = <<>>
    /\ lastOp = Op("init", "ok")
    /\ requests = [r \in 1..NumRequests |-> Idle]
    /\ audit = <<>>
    /\ SiteIdle

\* The step of a request handled as one unit: the handler's outcome on the
\* current store.
Handle(sc, op, out) ==
    /\ bookings' = out.bookings
    /\ exceptions' = out.exceptions
    /\ UNCHANGED <<policy, now, requests, audit, site>>
    /\ IF sc.observe
       THEN lastOp' = Op(op, out.result) /\ sent' = out.sent
       ELSE UNCHANGED <<lastOp, sent>>

\* ---------------------------------------------------------------- creation
\* Variant: auto-approval decided by the right to approve instead of the admin role.
AutoStatus_by_can_approve(user, b) ==
    IF user_can_approve(user)
    THEN [b EXCEPT !.status = "approved", !.approved_by = user]
    ELSE [b EXCEPT !.status = "pending"]

AutoStatus(user, b) ==
    IF user_is_admin_role(user) \/ is_superuser(user)
    THEN [b EXCEPT !.status = "approved", !.approved_by = user]
    ELSE [b EXCEPT !.status = "pending"]

\* Variant: the creation validation without any conflict detection.
CreateError_no_conflict_check(db, pol, t, user, lab, start, end) ==
    IF end <= start THEN "end_before_start"
    ELSE IF start < t THEN "past"
    ELSE "ok"

\* The first error of a creation request, "ok" if none: the form validation
\* (BookingForm.clean, then Booking.clean on the form instance), the view's
\* conflict check, and Booking.clean again in the validating save.
CreateError(db, pol, t, user, lab, start, end) ==
    LET form == NewBooking(user, lab, start, end)
    IN  IF BookingForm_clean(db, t, lab, start, end, 0) # "ok"
        THEN BookingForm_clean(db, t, lab, start, end, 0)
        ELSE IF clean(db, pol, t, form, 0) # "ok"
        THEN clean(db, pol, t, form, 0)
        ELSE IF has_booking_conflict(db, lab, start, end, 0, FALSE)
        THEN "conflict"
        ELSE clean(db, pol, t, AutoStatus(user, form), 0)

\* views.create_booking (function view, /bookings/new/)
create_booking(db, excs, pol, t, user, lab, start, end) ==
    LET booking == AutoStatus(user, NewBooking(user, lab, start, end))
        err == CreateError(db, pol, t, user, lab, start, end)
    IN  IF err # "ok"
        THEN Outcome(err, db, excs, <<>>)
        ELSE Outcome("ok", Append(db, booking), excs,
                     IF booking.status = "pending"
                     THEN notify_booking_created(Len(db) + 1) ELSE <<>>)

\* BookingCreateWithCalendarView.form_valid (/bookings/create/)
BookingCreateWithCalendarView(db, excs, pol, t, user, lab, start, end) ==
    LET form == NewBooking(user, lab, start, end)
        err == CreateError(db, pol, t, user, lab, start, end)
        booking == AutoStatus(user, form)
    IN  IF err # "ok"
        THEN Outcome(err, db, excs, <<>>)
        ELSE Outcome("ok", Append(db, booking), excs,
                     IF booking.status = "pending"
                     THEN notify_booking_created(Len(db) + 1) ELSE <<>>)

CreateBooking(sc) ==
    \E user \in sc.users, lab \in sc.labs, iv \in sc.ivs :
        /\ Len(bookings) < MaxBookings
        /\ Handle(sc, "create", create_booking(bookings, exceptions, policy, now,
                                               user, lab, iv[1], iv[2]))

CreateWithCalendar(sc) ==
    \E user \in sc.users, lab \in sc.labs, iv \in sc.ivs :
        /\ Len(bookings) < MaxBookings
        /\ Handle(sc, "create", BookingCreateWithCalendarView(bookings, exceptions, policy,
                                                             now, user, lab, iv[1], iv[2]))

\* ------------------------------------------------------------------ editing
\* BookingUpdateView: test_func, the BookingForm validation against the stored
\* instance, the view's conflict check and the validating save.
BookingUpdateView(db, excs, pol, t, user, id, lab, start, end) ==
    LET old == db[id]
        booking == [old EXCEPT !.lab = lab, !.start = start, !.end = end]
        res == IF ~(\/ is_superuser(user) \/ user_is_admin_role(user)
                    \/ (user = old.requester /\ old.status = "pending"))
               THEN "denied"
               ELSE IF BookingForm_clean(db, t, lab, start, end, id) # "ok"
               THEN BookingForm_clean(db, t, lab, start, end, id)
               ELSE IF clean(db, pol, t, booking, id) # "ok"
               THEN clean(db, pol, t, booking, id)
               ELSE IF has_booking_conflict(db, lab, start, end, id, TRUE)
               THEN "conflict"
               ELSE "ok"
    IN  Outcome(res, IF res = "ok" THEN [db EXCEPT ![id] = booking] ELSE db, excs, <<>>)

EditBooking(sc) ==
    \E user \in sc.users, id \in DOMAIN bookings, lab \in sc.labs, iv \in sc.ivs :
        Handle(sc, "edit", BookingUpdateView(bookings, exceptions, policy, now,
                                             user, id, lab, iv[1], iv[2]))

\* ---------------------------------------------------------- status actions
strip(s) == IF s = " " THEN "" ELSE s

Actions == {"approve", "reject", "cancel", "complete"}

\* Variant: the cancel branch without its permission check.
StatusResult_cancel_unchecked(user, b, action, admin_notes) ==
    CASE action \in {"approve", "reject"} ->
            IF ~user_can_approve(user) THEN "denied"
            ELSE IF b.status # "pending" THEN "invalid"
            ELSE IF action = "reject" /\ admin_notes = "" THEN "notes_required"
            ELSE "ok"
      [] action = "cancel" ->
            IF b.status \in {"cancelled", "completed"} THEN "invalid" ELSE "ok"
      [] action = "complete" ->
            IF ~user_can_approve(user) THEN "denied"
            ELSE IF b.status # "approved" THEN "invalid"
            ELSE "ok"
      [] OTHER -> "invalid_action"

\* The decision of booking_status_action / BookingDetailView.post on the
\* loaded booking b.
StatusResult(user, b, action, admin_notes) ==
    CASE action = "approve" ->
            IF ~user_can_approve(user) THEN "denied"
            ELSE IF b.status # "pending" THEN "invalid"
            ELSE "ok"
      [] action = "reject" ->
            IF ~user_can_approve(user) THEN "denied"
            ELSE IF b.status # "pending" THEN "invalid"
            ELSE IF admin_notes = "" THEN "notes_required"
            ELSE "ok"
      [] action = "cancel" ->
            IF ~(user = b.requester \/ user_is_admin_role(user)) THEN "denied"
            ELSE IF b.status \in {"cancelled", "completed"} THEN "invalid"
            ELSE "ok"
      [] action = "complete" ->
            IF ~user_can_approve(user) THEN "denied"
            ELSE IF b.status # "approved" THEN "invalid"
            ELSE "ok"
      [] OTHER -> "invalid_action"

\* Variant: the approver recorded is the booking's requester, not the actor.
StatusEffect_approver_is_requester(user, b, action, admin_notes) ==
    CASE action = "approve" ->
            [b EXCEPT !.status = "approved", !.approved_by = b.requester,
                      !.admin_notes = IF admin_notes # "" THEN admin_notes ELSE @]
      [] action = "reject" ->
            [b EXCEPT !.status = "rejected", !.approved_by = user,
                      !.admin_notes = admin_notes]
      [] action = "cancel" -> [b EXCEPT !.status = "cancelled"]
      [] action = "complete" ->
            [b EXCEPT !.status = "completed",
                      !.admin_notes = IF admin_notes # "" THEN admin_notes ELSE @]
      [] OTHER -> b

\* The fields the handler sets on the loaded booking b.
StatusEffect(user, b, action, admin_notes) ==
    CASE action = "approve" ->
            [b EXCEPT !.status = "approved", !.approved_by = user,
                      !.admin_notes = IF admin_notes # "" THEN admin_notes ELSE @]
      [] action = "reject" ->
            [b EXCEPT !.status = "rejected", !.approved_by = user,
                      !.admin_notes = admin_notes]
      [] action = "cancel" -> [b EXCEPT !.status = "cancelled"]
      [] action = "complete" ->
            [b EXCEPT !.status = "completed",
                      !.admin_notes = IF admin_notes # "" THEN admin_notes ELSE @]
      [] OTHER -> b

StatusNote(action) ==
    CASE action = "approve" -> "booking_approved"
      [] action = "reject" -> "booking_rejected"
      [] action = "cancel" -> "booking_cancelled"
      [] OTHER -> "booking_completed"

\* save(update_fields=...) writes only the named columns of row id from b.
SaveFields(db, id, b, action) ==
    CASE action \in {"approve", "reject"} ->
            [db EXCEPT ![id].status = b.status, ![id].approved_by = b.approved_by,
                       ![id].admin_notes = b.admin_notes]
      [] action = "cancel" -> [db EXCEPT ![id].status = b.status]
      [] OTHER -> [db EXCEPT ![id].status = b.status, ![id].admin_notes = b.admin_notes]

\* views.booking_status_action (the definition in force, the second in the file)
booking_status_action(db, excs, user, id, action, raw_notes) ==
    LET admin_notes == strip(raw_notes)
        b == db[id]
        res == StatusResult(user, b, action, admin_notes)
    IN  IF res # "ok"
        THEN Outcome(res, db, excs, <<>>)
        ELSE Outcome("ok", SaveFields(db, id, StatusEffect(user, b, action, admin_notes),
                                      action),
                     excs, <<Note(StatusNote(action), b.requester, id)>>)

\* BookingDetailView.post: the same decisions; a cancellation by the
\* requester notifies nobody.
BookingDetailView_post(db, excs, user, id, action, raw_notes) ==
    LET admin_notes == strip(raw_notes)
        b == db[id]
        res == StatusResult(user, b, action, admin_notes)
    IN  IF res # "ok"
        THEN Outcome(res, db, excs, <<>>)
        ELSE Outcome("ok", SaveFields(db, id, StatusEffect(user, b, action, admin_notes),
                                      action),
                     excs,
                     IF action = "cancel" /\ user = b.requester
                     THEN <<>> ELSE <<Note(StatusNote(action), b.requester, id)>>)

StatusAction(sc) ==
    \E user \in sc.users, id \in DOMAIN bookings, action \in Actions, n \in sc.notes :
        Handle(sc, action, booking_status_action(bookings, exceptions, user, id, action, n))

DetailAction(sc) ==
    \E user \in sc.users, id \in DOMAIN bookings, action \in Actions, n \in sc.notes :
        Handle(sc, action, BookingDetailView_post(bookings, exceptions, user, id, action, n))

\* ------------------------------------------------------------ bulk actions
RECURSIVE BulkApply(_, _, _, _, _)
BulkApply(db, ids, user, action, notes) ==
    IF ids = {} THEN db
    ELSE LET id == CHOOSE x \in ids : \A y \in ids : x <= y
             next == IF db[id].status # "pending" THEN db
                     ELSE IF action = "approve"
                     THEN [db EXCEPT ![id].status = "approved", ![id].approved_by = user]
                     ELSE [db EXCEPT ![id].status = "rejected", ![id].approved_by = user,
                                     ![id].admin_notes = notes]
         IN  BulkApply(next, ids \ {id}, user, action, notes)

RECURSIVE BulkNotes(_, _, _)
BulkNotes(db, ids, action) ==
    IF ids = {} THEN <<>>
    ELSE LET id == CHOOSE x \in ids : \A y \in ids : x <= y
             rest == BulkNotes(db, ids \ {id}, action)
         IN  IF db[id].status = "pending"
             THEN <<Note(StatusNote(action), db[id].requester, id)>> \o rest
             ELSE rest

\* views.bulk_booking_action, actions approve and reject; notes is not stripped
bulk_booking_action(db, excs, user, ids, action, notes) ==
    IF ~user_can_approve(user) THEN Outcome("denied", db, excs, <<>>)
    ELSE IF action = "reject" /\ notes = "" THEN Outcome("notes_required", db, excs, <<>>)
    ELSE Outcome("ok", BulkApply(db, ids, user, action, notes), excs,
                 BulkNotes(db, ids, action))

BulkAction(sc) ==
    \E user \in sc.users, ids \in (SUBSET DOMAIN bookings) \ {{}},
       action \in {"approve", "reject"}, n \in sc.notes :
        Handle(sc, "bulk_" \o action,
               bulk_booking_action(bookings, exceptions, user, ids, action, n))

\* -------------------------------------------------------- policy exceptions
NewException(id, user) ==
    [booking |-> id, requested_by |-> user, status |-> "pending", reviewed_by |-> None]

\* PolicyExceptionRequestView.form_valid
PolicyExceptionRequestView(db, excs, user, id) ==
    IF user # db[id].requester THEN Outcome("denied", db, excs, <<>>)
    ELSE Outcome("ok",
                 [db EXCEPT ![id].is_policy_exception = TRUE,
                            ![id].exception_reason = "reason"],
                 Append(excs, NewException(id, user)), <<>>)

RequestException(sc) ==
    \E user \in sc.users, id \in DOMAIN bookings :
        /\ Len(exceptions) < MaxExceptions
        /\ Handle(sc, "exception_request",
                  PolicyExceptionRequestView(bookings, exceptions, user, id))

\* The booking PolicyExceptionApprovalView.post saves (a validating save).
ResolvedBooking(user, b, action) ==
    IF action = "approve"
    THEN [b EXCEPT !.is_policy_exception = FALSE, !.status = "approved",
                   !.approved_by = user]
    ELSE [b EXCEPT !.is_policy_exception = FALSE, !.exception_reason = None,
                   !.status = "rejected"]

\* Variant: PolicyExceptionApprovalView without the transaction, the update
\* of the exception staying when the save of the booking fails.
PolicyExceptionApprovalView_no_rollback(db, excs, pol, t, user, x, action) ==
    LET id == excs[x].booking
        booking == ResolvedBooking(user, db[id], action)
        resolved == [excs EXCEPT ![x].status = IF action = "approve" THEN "approved"
                                               ELSE "rejected",
                                 ![x].reviewed_by = user]
    IN  IF ~user_is_admin_role(user) THEN Outcome("denied", db, excs, <<>>)
        ELSE IF clean(db, pol, t, booking, id) # "ok"
        THEN Outcome("error", db, resolved, <<>>)
        ELSE Outcome("ok", [db EXCEPT ![id] = booking], resolved, <<>>)

\* PolicyExceptionApprovalView: test_func, then post inside one transaction;
\* a ValidationError of booking.save() rolls the exception update back.
PolicyExceptionApprovalView(db, excs, pol, t, user, x, action) ==
    LET id == excs[x].booking
        booking == ResolvedBooking(user, db[id], action)
    IN  IF ~user_is_admin_role(user) THEN Outcome("denied", db, excs, <<>>)
        ELSE IF clean(db, pol, t, booking, id) # "ok" THEN Outcome("error", db, excs, <<>>)
        ELSE Outcome("ok", [db EXCEPT ![id] = booking],
                     [excs EXCEPT ![x].status = IF action = "approve" THEN "approved"
                                                ELSE "rejected",
                                  ![x].reviewed_by = user],
                     <<>>)

ResolveException(sc) ==
    \E user \in sc.users, x \in DOMAIN exceptions, action \in {"approve", "reject"} :
        Handle(sc, "exception_" \o action,
               PolicyExceptionApprovalView(bookings, exceptions, policy, now, user, x, action))

\* --------------------------------------------------------------- recurrence
max_instances == 52

Frequencies == {"daily", "weekly", "biweekly", "monthly", "none"}

delta(frequency) ==
    CASE frequency = "daily" -> 1 * DayLen
      [] frequency = "weekly" -> 7 * DayLen
      [] frequency = "biweekly" -> 14 * DayLen
      [] frequency = "monthly" -> 30 * DayLen
      [] OTHER -> 0

\* Variant: the occurrence stored without the link to its parent.
RecurringChild_unlinked(parent, pid, start, end) ==
    [requester |-> parent.requester, lab |-> parent.lab, start |-> start, end |-> end,
     purpose |-> parent.purpose,
     status |-> IF parent.status = "approved" THEN "approved" ELSE "pending",
     approved_by |-> None, admin_notes |-> "series", parent_booking |-> 0,
     is_policy_exception |-> FALSE, exception_reason |-> None]

RecurringChild(parent, pid, start, end) ==
    [requester |-> parent.requester, lab |-> parent.lab, start |-> start, end |-> end,
     purpose |-> parent.purpose,
     status |-> IF parent.status = "approved" THEN "approved" ELSE "pending",
     approved_by |-> None, admin_notes |-> "series", parent_booking |-> pid,
     is_policy_exception |-> FALSE, exception_reason |-> None]

\* Variant: the loop giving up at the first occurrence it cannot create.
RECURSIVE RecurLoop_stop_at_skip(_, _, _, _, _, _, _, _, _)
RecurLoop_stop_at_skip(db, pol, t, pid, d, current_start, current_end, end_date, instance_count) ==
    IF ~(DateOf(current_start) <= end_date /\ instance_count < max_instances)
    THEN db
    ELSE LET parent == db[pid]
             conflicts == \E i \in DOMAIN db :
                             /\ Overlaps(db[i], parent.lab, current_start, current_end)
                             /\ db[i].status \notin {"cancelled", "rejected"}
             child == RecurringChild(parent, pid, current_start, current_end)
             created == ~conflicts /\ clean(db, pol, t, child, 0) = "ok"
             next == Append(db, child)
         IN  IF ~created \/ Len(next) < Len(db) THEN db
             ELSE RecurLoop_stop_at_skip(next, pol, t, pid, d,
                                         current_start + d, current_end + d, end_date,
                                         instance_count + 1)

\* Variant: the loop without the cap on the number of occurrences.
RECURSIVE RecurLoop_uncapped(_, _, _, _, _, _, _, _, _)
RecurLoop_uncapped(db, pol, t, pid, d, current_start, current_end, end_date, instance_count) ==
    IF ~(DateOf(current_start) <= end_date)
    THEN db
    ELSE LET parent == db[pid]
             conflicts == \E i \in DOMAIN db :
                             /\ Overlaps(db[i], parent.lab, current_start, current_end)
                             /\ db[i].status \notin {"cancelled", "rejected"}
             child == RecurringChild(parent, pid, current_start, current_end)
             created == ~conflicts /\ clean(db, pol, t, child, 0) = "ok"
             next == IF created THEN Append(db, child) ELSE db
         IN  IF Len(next) < Len(db) THEN db
             ELSE RecurLoop_uncapped(next, pol, t, pid, d, current_start + d,
                                     current_end + d, end_date, instance_count + 1)

\* The loop of create_recurring_bookings from occurrence current_start on:
\* the store after the remaining iterations.  Booking.objects.create saves
\* with validation; a ValidationError is caught and the occurrence skipped.
\* (The store of the next iteration is measured before the call so that it
\* is computed once per iteration; it never shrinks.)
RECURSIVE RecurLoop(_, _, _, _, _, _, _, _, _)
RecurLoop(db, pol, t, pid, d, current_start, current_end, end_date, instance_count) ==
    IF ~(DateOf(current_start) <= end_date /\ instance_count < max_instances)
    THEN db
    ELSE LET parent == db[pid]
             conflicts == \E i \in DOMAIN db :
                             /\ Overlaps(db[i], parent.lab, current_start, current_end)
                             /\ db[i].status \notin {"cancelled", "rejected"}
             child == RecurringChild(parent, pid, current_start, current_end)
             created == ~conflicts /\ clean(db, pol, t, child, 0) = "ok"
             next == IF created THEN Append(db, child) ELSE db
         IN  IF Len(next) < Len(db) THEN db
             ELSE RecurLoop(next, pol, t, pid, d, current_start + d, current_end + d,
                            end_date, instance_count + 1)

\* RecurringBookingService.create_recurring_bookings
create_recurring_bookings(db, excs, pol, t, pid, frequency, end_date) ==
    LET parent == db[pid]
        d == delta(frequency)
        result == IF d = 0 THEN db
                  ELSE RecurLoop(db, pol, t, pid, d, parent.start + d, parent.end + d,
                                 end_date, 0)
    IN  Outcome(IF Len(result) > Len(db) THEN "ok" ELSE "none", result, excs, <<>>)

\* The list create_recurring_bookings returns: the same loop, appending the
\* new row to created_bookings right after it is stored.
RECURSIVE RecurReturned(_, _, _, _, _, _, _, _, _, _)
RecurReturned(db, pol, t, pid, d, current_start, current_end, end_date, instance_count, created_bookings) ==
    IF ~(DateOf(current_start) <= end_date /\ instance_count < max_instances)
    THEN created_bookings
    ELSE LET parent == db[pid]
             conflicts == \E i \in DOMAIN db :
                             /\ Overlaps(db[i], parent.lab, current_start, current_end)
                             /\ db[i].status \notin {"cancelled", "rejected"}
             child == RecurringChild(parent, pid, current_start, current_end)
             created == ~conflicts /\ clean(db, pol, t, child, 0) = "ok"
             next == IF created THEN Append(db, child) ELSE db
             list == IF created THEN Append(created_bookings, Len(next))
                     ELSE created_bookings
         IN  IF Len(next) < Len(db) \/ Len(list) < Len(created_bookings) THEN list
             ELSE RecurReturned(next, pol, t, pid, d, current_start + d, current_end + d,
                                end_date, instance_count + 1, list)

created_bookings(db, pol, t, pid, frequency, end_date) ==
    LET parent == db[pid]
        d == delta(frequency)
    IN  IF d = 0 THEN <<>>
        ELSE RecurReturned(db, pol, t, pid, d, parent.start + d, parent.end + d,
                           end_date, 0, <<>>)

ExpandRecurrence(sc) ==
    \E pid \in DOMAIN bookings, frequency \in Frequencies, end_date \in 0..NumDays :
        LET out == create_recurring_bookings(bookings, exceptions, policy, now,
                                             pid, frequency, end_date)
        IN  /\ Len(out.bookings) <= MaxBookings
            /\ Handle(sc, "recur", out)

\* RecurringBookingService.cancel_recurring_series
cancel_recurring_series(db, excs, t, pid) ==
    LET result == [i \in DOMAIN db |->
                     IF /\ db[i].parent_booking = pid
                        /\ db[i].start >= t
                        /\ db[i].status # "cancelled"
                     THEN [db[i] EXCEPT !.status = "cancelled"]
                     ELSE db[i]]
    IN  Outcome(IF result # db THEN "ok" ELSE "none", result, excs, <<>>)

CancelSeries(sc) ==
    \E pid \in DOMAIN bookings :
        Handle(sc, "cancel_series", cancel_recurring_series(bookings, exceptions, now, pid))

\* RecurringBookingService.update_recurring_series: a queryset update of the
\* future pending children of the parent; QuerySet.update writes the given
\* columns without model validation.  fields gives the new value of start,
\* end and purpose; a column that is not passed is -1 (a time) or None.
NoFields == [start |-> -1, end |-> -1, purpose |-> None]

Updated(b, fields) ==
    [b EXCEPT !.start = IF fields.start < 0 THEN @ ELSE fields.start,
              !.end = IF fields.end < 0 THEN @ ELSE fields.end,
              !.purpose = IF fields.purpose = None THEN @ ELSE fields.purpose]

update_recurring_series(db, excs, t, pid, update_future, fields) ==
    LET result == [i \in DOMAIN db |->
                     IF /\ update_future
                        /\ db[i].parent_booking = pid
                        /\ db[i].start >= t
                        /\ db[i].status = "pending"
                     THEN Updated(db[i], fields)
                     ELSE db[i]]
        count == Cardinality({i \in DOMAIN db : /\ update_future
                                                /\ db[i].parent_booking = pid
                                                /\ db[i].start >= t
                                                /\ db[i].status = "pending"})
    IN  Outcome(IF count > 0 THEN "ok" ELSE "none", result, excs, <<>>)

\* The columns a caller passes: a new purpose, a new end, or a new interval.
SeriesUpdates(sc) ==
    {[NoFields EXCEPT !.purpose = "seminar"]}
        \cup {[NoFields EXCEPT !.end = iv[2]] : iv \in sc.ivs}
        \cup {[NoFields EXCEPT !.start = iv[1], !.end = iv[2]] : iv \in sc.ivs}

UpdateSeries(sc) ==
    \E pid \in DOMAIN bookings, update_future \in BOOLEAN, fields \in SeriesUpdates(sc) :
        Handle(sc, "update_series",
               update_recurring_series(bookings, exceptions, now, pid, update_future, fields))

\* -------------------------------------------------------------------- time
\* The clock (timezone.now()) advances between requests.
Tick(sc) ==
    /\ now < MaxNow
    /\ now' = now + 1
    /\ UNCHANGED <<bookings, exceptions, policy, requests, audit, site>>
    /\ IF sc.observe
       THEN lastOp' = Op("tick", "ok") /\ sent' = <<>>
       ELSE UNCHANGED <<lastOp, sent>>

\* ------------------------------------------------------------ specification
NextIn(sc) ==
    \/ CreateBooking(sc)
    \/ CreateWithCalendar(sc)
    \/ EditBooking(sc)
    \/ StatusAction(sc)
    \/ DetailAction(sc)
    \/ BulkAction(sc)
    \/ RequestException(sc)
    \/ ResolveException(sc)
    \/ ExpandRecurrence(sc)
    \/ CancelSeries(sc)
    \/ Tick(sc)

\* The whole system, one request at a time.  Two users (a student and a
\* manager), one lab, no active policy: an active policy only makes more
\* requests fail, and a failed request leaves the store unchanged.
MainScope == Scope({"stu", "mgr"}, {"L1"}, ShortIntervals, {"note"}, {NoPolicy}, FALSE)

Init == InitIn(MainScope)

Next == NextIn(MainScope)

Spec == Init /\ [][Next]_vars

\* Creation and the lifecycle actions with their responses observed, for
\* every kind of user.
ObservedIntervals == {iv \in ShortIntervals : iv[2] - iv[1] <= 1}

ObservedScope == Scope(Users, {"L1"}, ObservedIntervals, RawNotes, {NoPolicy}, TRUE)

InitObserved == InitIn(ObservedScope)

NextObserved ==
    \/ CreateBooking(ObservedScope)
    \/ CreateWithCalendar(ObservedScope)
    \/ StatusAction(ObservedScope)
    \/ DetailAction(ObservedScope)
    \/ BulkAction(ObservedScope)

SpecObserved == InitObserved /\ [][NextObserved]_vars

\* ------------------------------------------------------ interleaved requests
\* Requests served by separate workers: every database read and every write
\* of a handler is a step of its own, and the steps of different requests
\* interleave (no row lock, no exclusion constraint on the booking table).
RaceUsers == {"stu", "mgr", "root"}
RaceIntervals == {<<0, 1>>, <<0, 2>>, <<1, 2>>}

\* create_booking up to its conflict check: form.is_valid() and
\* has_booking_conflict, both reading the store as it is now.
RaceValidate(r) ==
    \E user \in RaceUsers, iv \in RaceIntervals :
        LET lab == "L1"
            form == NewBooking(user, lab, iv[1], iv[2])
            err == IF BookingForm_clean(bookings, now, lab, iv[1], iv[2], 0) # "ok"
                   THEN BookingForm_clean(bookings, now, lab, iv[1], iv[2], 0)
                   ELSE IF clean(bookings, policy, now, form, 0) # "ok"
                   THEN clean(bookings, policy, now, form, 0)
                   ELSE IF has_booking_conflict(bookings, lab, iv[1], iv[2], 0, FALSE)
                   THEN "conflict"
                   ELSE "ok"
        IN  /\ requests[r].pc = "idle"
            /\ requests' = [requests EXCEPT ![r] =
                   [Idle EXCEPT !.kind = "create", !.user = user, !.lab = lab,
                                !.start = iv[1], !.end = iv[2],
                                !.pc = IF err = "ok" THEN "validated" ELSE "done",
                                !.result = IF err = "ok" THEN None ELSE err]]
            /\ UNCHANGED <<bookings, exceptions, policy, now, sent, lastOp, audit, site>>

\* booking.save(), first half: full_clean() reads the store again.
RaceClean(r) ==
    LET q == requests[r]
        booking == AutoStatus(q.user, NewBooking(q.user, q.lab, q.start, q.end))
        err == clean(bookings, policy, now, booking, 0)
    IN  /\ q.kind = "create" /\ q.pc = "validated"
        /\ requests' = [requests EXCEPT ![r].pc = IF err = "ok" THEN "cleaned" ELSE "done",
                                        ![r].result = IF err = "ok" THEN None ELSE err]
        /\ UNCHANGED <<bookings, exceptions, policy, now, sent, lastOp, audit, site>>

\* booking.save(), second half: the INSERT, then the notification.
RaceInsert(r) ==
    LET q == requests[r]
        booking == AutoStatus(q.user, NewBooking(q.user, q.lab, q.start, q.end))
    IN  /\ q.kind = "create" /\ q.pc = "cleaned"
        /\ Len(bookings) < MaxBookings
        /\ bookings' = Append(bookings, booking)
        /\ requests' = [requests EXCEPT ![r].pc = "done", ![r].result = "ok",
                                        ![r].id = Len(bookings) + 1,
                                        ![r].sent = IF booking.status = "pending"
                                                    THEN notify_booking_created(Len(bookings) + 1)
                                                    ELSE <<>>]
        /\ UNCHANGED <<exceptions, policy, now, sent, lastOp, audit, site>>

\* booking_status_action, action approve: get_object_or_404 loads the row.
RaceLoad(r) ==
    \E user \in RaceUsers, id \in DOMAIN bookings :
        /\ requests[r].pc = "idle"
        /\ requests' = [requests EXCEPT ![r] =
               [Idle EXCEPT !.kind = "approve", !.user = user, !.id = id,
                            !.seen = bookings[id], !.pc = "loaded"]]
        /\ UNCHANGED <<bookings, exceptions, policy, now, sent, lastOp, audit, site>>

\* booking_status_action, action approve: the checks on the loaded row, the
\* UPDATE of the three columns and the notification.
RaceApprove(r) ==
    LET q == requests[r]
        res == StatusResult(q.user, q.seen, "approve", "")
    IN  /\ q.kind = "approve" /\ q.pc = "loaded"
        /\ bookings' = IF res = "ok"
                       THEN SaveFields(bookings, q.id,
                                       StatusEffect(q.user, q.seen, "approve", ""), "approve")
                       ELSE bookings
        /\ requests' = [requests EXCEPT ![r].pc = "done", ![r].result = res,
                                        ![r].sent = IF res = "ok"
                                                    THEN <<Note("booking_approved",
                                                                q.seen.requester, q.id)>>
                                                    ELSE <<>>]
        /\ UNCHANGED <<exceptions, policy, now, sent, lastOp, audit, site>>

\* The worker takes the next request.
RaceRelease(r) ==
    /\ requests[r].pc = "done"
    /\ requests' = [requests EXCEPT ![r] = Idle]
    /\ UNCHANGED <<bookings, exceptions, policy, now, sent, lastOp, audit, site>>

InitRace == InitIn(Scope(RaceUsers, {"L1"}, RaceIntervals, {""}, {NoPolicy}, FALSE))

NextRace ==
    \E r \in 1..NumRequests :
        \/ RaceValidate(r)
        \/ RaceClean(r)
        \/ RaceInsert(r)
        \/ RaceLoad(r)
        \/ RaceApprove(r)
        \/ RaceRelease(r)

SpecRace == InitRace /\ [][NextRace]_vars

\* booking_status_action, action cancel: get_object_or_404 loads the row.
RaceLoadCancel(r) ==
    \E user \in RaceUsers, id \in DOMAIN bookings :
        /\ requests[r].pc = "idle"
        /\ requests' = [requests EXCEPT ![r] =
               [Idle EXCEPT !.kind = "cancel", !.user = user, !.id = id,
                            !.seen = bookings[id], !.pc = "loaded"]]
        /\ UNCHANGED <<bookings, exceptions, policy, now, sent, lastOp, audit, site>>

\* booking_status_action, action cancel: the checks on the loaded row, the
\* UPDATE of the status column and the notification.
RaceCancel(r) ==
    LET q == requests[r]
        res == StatusResult(q.user, q.seen, "cancel", "")
    IN  /\ q.kind = "cancel" /\ q.pc = "loaded"
        /\ bookings' = IF res = "ok"
                       THEN SaveFields(bookings, q.id,
                                       StatusEffect(q.user, q.seen, "cancel", ""), "cancel")
                       ELSE bookings
        /\ requests' = [requests EXCEPT ![r].pc = "done", ![r].result = res,
                                        ![r].sent = IF res = "ok"
                                                    THEN <<Note("booking_cancelled",
                                                                q.seen.requester, q.id)>>
                                                    ELSE <<>>]
        /\ UNCHANGED <<exceptions, policy, now, sent, lastOp, audit, site>>

\* Approve and cancel requests served by separate workers, on bookings
\* created one at a time.
RaceCancelScope == Scope(RaceUsers, {"L1"}, {<<0, 1>>}, {""}, {NoPolicy}, FALSE)

InitRaceCancel == InitIn(RaceCancelScope)

NextRaceCancel ==
    \/ CreateBooking(RaceCancelScope)
    \/ \E r \in 1..NumRequests :
          \/ RaceLoad(r)
          \/ RaceApprove(r)
          \/ RaceLoadCancel(r)
          \/ RaceCancel(r)
          \/ RaceRelease(r)

SpecRaceCancel == InitRaceCancel /\ [][NextRaceCancel]_vars

\* -------------------------------------------------- failing notifications
\* How the dispatch of a request's notifications goes: "none" as intended;
\* "email" when sending the mail raises (caught in create_notification, the
\* Notification row is stored); "insert" when Notification.objects.create
\* raises a database error (caught by the service as well).  Inside
\* transaction.atomic the failed INSERT marks the transaction for rollback:
\* the block then rolls back on exit although no exception leaves it.
NotifyFailures == {"none", "email", "insert"}

\* views.create_booking: save and notification inside transaction.atomic.
create_booking_notifying(db, excs, pol, t, user, lab, start, end, failure) ==
    LET out == create_booking(db, excs, pol, t, user, lab, start, end)
    IN  IF failure = "insert" /\ out.sent # <<>>
        THEN Outcome(out.result, db, excs, <<>>)
        ELSE out

\* BookingCreateWithCalendarView.form_valid: no transaction, the save is
\* committed before the notification is attempted.
BookingCreateWithCalendarView_notifying(db, excs, pol, t, user, lab, start, end, failure) ==
    LET out == BookingCreateWithCalendarView(db, excs, pol, t, user, lab, start, end)
    IN  IF failure = "insert"
        THEN Outcome(out.result, out.bookings, out.exceptions, <<>>)
        ELSE out

\* views.booking_status_action: no transaction either.
booking_status_action_notifying(db, excs, user, id, action, raw_notes, failure) ==
    LET out == booking_status_action(db, excs, user, id, action, raw_notes)
    IN  IF failure = "insert"
        THEN Outcome(out.result, out.bookings, out.exceptions, <<>>)
        ELSE out

\* views.bulk_booking_action: the loop runs inside transaction.atomic.  After
\* a failed INSERT the save of a further pending booking raises (the
\* transaction is broken) and the handler answers an error; with one pending
\* booking the loop ends normally and the handler answers success.
bulk_booking_action_notifying(db, excs, user, ids, action, notes, failure) ==
    LET out == bulk_booking_action(db, excs, user, ids, action, notes)
    IN  IF failure = "insert" /\ out.sent # <<>>
        THEN Outcome(IF Len(out.sent) = 1 THEN out.result ELSE "error", db, excs, <<>>)
        ELSE out

NotifyingCreate(sc) ==
    \E user \in sc.users, lab \in sc.labs, iv \in sc.ivs, failure \in NotifyFailures :
        /\ Len(bookings) < MaxBookings
        /\ Handle(sc, "create", create_booking_notifying(bookings, exceptions, policy, now,
                                                         user, lab, iv[1], iv[2], failure))

NotifyingCreateWithCalendar(sc) ==
    \E user \in sc.users, lab \in sc.labs, iv \in sc.ivs, failure \in NotifyFailures :
        /\ Len(bookings) < MaxBookings
        /\ Handle(sc, "create",
                  BookingCreateWithCalendarView_notifying(bookings, exceptions, policy, now,
                                                          user, lab, iv[1], iv[2], failure))

NotifyingStatusAction(sc) ==
    \E user \in sc.users, id \in DOMAIN bookings, action \in Actions, n \in sc.notes,
       failure \in NotifyFailures :
        Handle(sc, action, booking_status_action_notifying(bookings, exceptions, user, id,
                                                           action, n, failure))

NotifyingBulkAction(sc) ==
    \E user \in sc.users, ids \in (SUBSET DOMAIN bookings) \ {{}},
       action \in {"approve", "reject"}, n \in sc.notes, failure \in NotifyFailures :
        Handle(sc, "bulk_" \o action,
               bulk_booking_action_notifying(bookings, exceptions, user, ids, action, n,
                                             failure))

NotifyScope == Scope({"stu", "mgr"}, {"L1"}, ObservedIntervals, {"note"}, {NoPolicy}, TRUE)

InitNotify == InitIn(NotifyScope)

NextNotify ==
    \/ NotifyingCreate(NotifyScope)
    \/ NotifyingCreateWithCalendar(NotifyScope)
    \/ NotifyingStatusAction(NotifyScope)
    \/ NotifyingBulkAction(NotifyScope)

SpecNotify == InitNotify /\ [][NextNotify]_vars

\* ------------------------------------------------------ with active policy
\* The requests an active policy bears on: creation, edit, the exception
\* flow, and the passing of time.  Intervals inside and across the working
\* window of today and one inside the window of tomorrow.
PolicyIntervals ==
    {<<1, 2>>, <<1, 3>>, <<2, 3>>, <<DayLen + 1, DayLen + 2>>}

PolicyScope == Scope({"stu", "mgr"}, {"L1"}, PolicyIntervals, {"note"}, Policies, TRUE)

InitPolicy == InitIn(PolicyScope)

NextPolicy ==
    \/ CreateBooking(PolicyScope)
    \/ EditBooking(PolicyScope)
    \/ RequestException(PolicyScope)
    \/ ResolveException(PolicyScope)
    \/ Tick(PolicyScope)

SpecPolicy == InitPolicy /\ [][NextPolicy]_vars

\* ------------------------------------------------------------ availability
\* One tick is one slot of SLOT_MINUTES minutes.  The grid's working window
\* is fixed in the modules (not taken from the policy); here slots 0, 1, 2
\* of every day.
SLOT_MINUTES == 30
WORK_START_HOUR == 0
WORK_END_HOUR == 3

start_of_day(date, hour) == date * DayLen + hour

\* The slot slices of the day: cur from start_of_day by one step while
\* cur + step <= end_of_day.
DaySlots(date, from, to) ==
    [i \in 1..(IF to > from THEN to - from ELSE 0) |->
        <<start_of_day(date, from) + i - 1, start_of_day(date, from) + i>>]

\* The indices i..n that are in the set kept, in increasing order.
RECURSIVE Selected(_, _, _)
Selected(n, i, kept) ==
    IF i > n THEN <<>>
    ELSE (IF i \in kept THEN <<i>> ELSE <<>>) \o Selected(n, i + 1, kept)

\* Variant: the number of slots rounded up instead of down.
slots_needed_rounded_up(duration) ==
    IF (duration + SLOT_MINUTES - 1) \div SLOT_MINUTES < 1 THEN 1
    ELSE (duration + SLOT_MINUTES - 1) \div SLOT_MINUTES

\* slots_needed = max(1, duration // SLOT_MINUTES)
slots_needed(duration) ==
    IF duration \div SLOT_MINUTES < 1 THEN 1 ELSE duration \div SLOT_MINUTES

\* strftime("%H:%M"): the time of day of an instant, its date dropped.
HHMM(t) == TimeOf(t)

\* views.availability_for_date (the definition in force, the second in the
\* file): the booked intervals and the windows of slots_needed free slots.
availability_for_date(db, lab, date, duration) ==
    LET day_start == start_of_day(date, WORK_START_HOUR)
        day_end == start_of_day(date, WORK_END_HOUR)
        booked_qs == {j \in DOMAIN db : /\ db[j].lab = lab
                                        /\ db[j].start < day_end
                                        /\ db[j].end > day_start
                                        /\ db[j].status \in {"approved", "pending"}}
        slots == DaySlots(date, WORK_START_HOUR, WORK_END_HOUR)
        free(i) == ~\E j \in booked_qs :
                       db[j].start < slots[i][2] /\ db[j].end > slots[i][1]
        needed == slots_needed(duration)
        ok(i) == \A idx \in i..(i + needed - 1) : free(idx)
        starts == Selected(Len(slots) - needed + 1, 1,
                           {i \in 1..(Len(slots) - needed + 1) : ok(i)})
    IN  [booked |-> {<<db[j].start, db[j].end>> : j \in booked_qs},
         available_slots |->
             [n \in DOMAIN starts |->
                 <<HHMM(slots[starts[n]][1]), HHMM(slots[starts[n] + needed - 1][2])>>]]

\* utils.get_available_time_slots: the free slots of the day, or nothing when
\* the date is outside the booking window of the active policy.
get_available_time_slots(db, pol, t, lab, date) ==
    LET day_start == start_of_day(date, WORK_START_HOUR)
        day_end == start_of_day(date, WORK_END_HOUR)
        existing == {j \in DOMAIN db : /\ db[j].lab = lab
                                       /\ db[j].start < day_end
                                       /\ db[j].end > day_start
                                       /\ db[j].status \notin {"cancelled", "rejected"}}
        all == DaySlots(date, WORK_START_HOUR, WORK_END_HOUR)
        free(i) == ~\E j \in existing : db[j].start < all[i][2] /\ db[j].end > all[i][1]
        kept == Selected(Len(all), 1, {i \in DOMAIN all : free(i)})
    IN  IF /\ pol.is_active
           /\ \/ date < DateOf(t + pol.advance_notice_days * DayLen)
              \/ date > DateOf(t + pol.max_advance_booking_days * DayLen)
        THEN <<>>
        ELSE [n \in DOMAIN kept |-> all[kept[n]]]

\* Booking.available_time_slots_for_date: the free slots inside the working
\* hours of the active policy (the fixed window without one).
available_time_slots_for_date(db, pol, lab, date_obj) ==
    LET work_start == IF pol.is_active THEN pol.work_start_hour ELSE WORK_START_HOUR
        work_end == IF pol.is_active THEN pol.work_end_hour ELSE WORK_END_HOUR
        day_start == start_of_day(date_obj, work_start)
        day_end == start_of_day(date_obj, work_end)
        booked == {j \in DOMAIN db : /\ db[j].lab = lab
                                     /\ db[j].start < day_end
                                     /\ db[j].end > day_start
                                     /\ db[j].status \notin {"cancelled", "rejected"}}
        all == DaySlots(date_obj, work_start, work_end)
        free(i) == ~\E j \in booked : db[j].start < all[i][2] /\ db[j].end > all[i][1]
        kept == Selected(Len(all), 1, {i \in DOMAIN all : free(i)})
    IN  [n \in DOMAIN kept |-> <<HHMM(all[kept[n]][1]), HHMM(all[kept[n]][2])>>]

\* The durations a query asks for, in minutes: multiples of half a slot.
QueryDurations == {k * (SLOT_MINUTES \div 2) : k \in 0..MaxHalfSlots}

\* A query leaves the store alone; its inputs and its response are recorded.
QueryAvailability(sc) ==
    \E lab \in sc.labs, date \in 0..MaxQueryDate, duration \in QueryDurations :
        /\ lastOp' = [op |-> "availability", result |-> "ok", lab |-> lab, date |-> date,
                      duration |-> duration,
                      response |-> availability_for_date(bookings, lab, date, duration)]
        /\ sent' = <<>>
        /\ UNCHANGED <<bookings, exceptions, policy, now, requests, audit, site>>

QuerySlots(sc) ==
    \E lab \in sc.labs, date \in 0..MaxQueryDate :
        /\ lastOp' = [op |-> "slots", result |-> "ok", lab |-> lab, date |-> date,
                      response |-> get_available_time_slots(bookings, policy, now, lab, date),
                      grid |-> available_time_slots_for_date(bookings, policy, lab, date)]
        /\ sent' = <<>>
        /\ UNCHANGED <<bookings, exceptions, policy, now, requests, audit, site>>

AvailScope ==
    Scope({"stu", "mgr"}, {"L1"}, ObservedIntervals, {"note"}, Policies \cup {NoPolicy}, TRUE)

InitAvail == InitIn(AvailScope)

NextAvail ==
    \/ CreateBooking(AvailScope)
    \/ StatusAction(AvailScope)
    \/ QueryAvailability(AvailScope)
    \/ QuerySlots(AvailScope)
    \/ Tick(AvailScope)

SpecAvail == InitAvail /\ [][NextAvail]_vars

\* ------------------------------------------------------ series expansion
\* The expander on its own.  The until-dates tried for a parent and a
\* frequency: the dates of its first occurrences, the day before each, and
\* one date far enough for the cap to bite.
UntilDates(parent, frequency) ==
    {u \in {DateOf(parent.start) + (delta(frequency) \div DayLen) * k - j :
               k \in 0..MaxOccurrences, j \in 0..1} : u >= 0}
        \cup {MaxUntil}

\* Parents today and the day after tomorrow.
ExpandIntervals == {<<0, 1>>, <<1, 2>>, <<2 * DayLen, 2 * DayLen + 1>>}

\* The expansion of a store of at most MaxBookings bookings.
ExpandSeries(sc) ==
    \E pid \in DOMAIN bookings, frequency \in Frequencies :
      \E end_date \in UntilDates(bookings[pid], frequency) :
        /\ Len(bookings) <= MaxBookings
        /\ Handle(sc, "recur", create_recurring_bookings(bookings, exceptions, policy, now,
                                                         pid, frequency, end_date))

ExpandScope ==
    Scope({"stu", "mgr"}, {"L1"}, ExpandIntervals, {"note"},
          {NoPolicy} \cup {p \in Policies : p.advance_notice_days = 0}, TRUE)

InitExpand == InitIn(ExpandScope)

NextExpand ==
    \/ CreateBooking(ExpandScope)
    \/ ExpandSeries(ExpandScope)
    \/ Tick(ExpandScope)

SpecExpand == InitExpand /\ [][NextExpand]_vars

\* ------------------------------------------------------ recurring series
\* The series service next to creation: a parent is created, expanded into
\* its occurrences, and the series is updated or cancelled as time passes.
SeriesScope == Scope({"stu", "mgr"}, {"L1"}, ShortIntervals, {"note"}, {NoPolicy}, TRUE)

InitSeries == InitIn(SeriesScope)

NextSeries ==
    \/ CreateBooking(SeriesScope)
    \/ ExpandRecurrence(SeriesScope)
    \/ UpdateSeries(SeriesScope)
    \/ CancelSeries(SeriesScope)
    \/ Tick(SeriesScope)

SpecSeries == InitSeries /\ [][NextSeries]_vars

\* ------------------------------------------------- the programme administrator
\* Creation and the lifecycle actions by a student and a programme
\* administrator, the responses observed.
RolesScope == Scope({"stu", "padm"}, {"L1"}, ObservedIntervals, {"", "note"}, {NoPolicy}, TRUE)

InitRoles == InitIn(RolesScope)

NextRoles ==
    \/ CreateBooking(RolesScope)
    \/ StatusAction(RolesScope)
    \/ DetailAction(RolesScope)
    \/ BulkAction(RolesScope)

SpecRoles == InitRoles /\ [][NextRoles]_vars

\* ---------------------------------------------------------------- audit log
\* A row of AuditLog; timestamp is auto_now_add.
AuditEntry(actor, action, entity, t) ==
    [actor |-> actor, action |-> action, entity |-> entity, timestamp |-> t]

\* Variant: create_audit_log keeping one row per entity, the new row taking
\* the place of the newest one.
create_audit_log_overwriting(log, actor, action, entity, t, stored) ==
    IF ~stored THEN log
    ELSE IF log = <<>> THEN <<AuditEntry(actor, action, entity, t)>>
    ELSE [log EXCEPT ![Len(log)] = AuditEntry(actor, action, entity, t)]

\* views.create_audit_log: AuditLog.objects.create, one new row; an
\* exception of the INSERT is logged and swallowed (stored = FALSE).
create_audit_log(log, actor, action, entity, t, stored) ==
    IF stored THEN Append(log, AuditEntry(actor, action, entity, t)) ELSE log

\* BookingUpdateView.form_valid with its audit row, written after the save.
AuditedUpdate(sc) ==
    \E user \in sc.users, id \in DOMAIN bookings, lab \in sc.labs, iv \in sc.ivs,
       stored \in BOOLEAN :
        LET out == BookingUpdateView(bookings, exceptions, policy, now, user, id, lab,
                                     iv[1], iv[2])
        IN  /\ Len(audit) < MaxAudit
            /\ bookings' = out.bookings
            /\ exceptions' = out.exceptions
            /\ IF sc.observe
               THEN lastOp' = Op("edit", out.result) /\ sent' = out.sent
               ELSE UNCHANGED <<lastOp, sent>>
            /\ audit' = IF out.result = "ok"
                        THEN create_audit_log(audit, user, "booking_updated", id, now,
                                              stored)
                        ELSE audit
            /\ UNCHANGED <<policy, now, requests, site>>

\* BookingDeleteView of the newest booking (the other rows keep their ids):
\* test_func, then inside one transaction the notification, the audit row and
\* the DELETE, which cascades to the policy exceptions of the booking.  The
\* audit row is missing when its INSERT fails or when the framework's
\* DeleteView does not route POST through delete(); when the INSERT breaks
\* the transaction (failed) nothing is deleted.
BookingDeleteView(db, excs, user, id, failed) ==
    LET booking == db[id]
    IN  IF ~(\/ is_superuser(user) \/ user_is_admin_role(user)
             \/ (booking.requester = user /\ booking.status \in {"pending", "approved"}))
        THEN Outcome("denied", db, excs, <<>>)
        ELSE IF failed THEN Outcome("error", db, excs, <<>>)
        ELSE Outcome("ok", SubSeq(db, 1, id - 1),
                     SelectSeq(excs, LAMBDA x : x.booking # id),
                     <<Note("booking_cancelled", booking.requester, id)>>)

DeleteBooking(sc) ==
    \E user \in sc.users, stored \in BOOLEAN, notified \in BOOLEAN, failed \in BOOLEAN :
        LET id == Len(bookings)
            out == BookingDeleteView(bookings, exceptions, user, id, failed)
        IN  /\ bookings # <<>>
            /\ Len(audit) < MaxAudit
            /\ bookings' = out.bookings
            /\ exceptions' = out.exceptions
            /\ IF sc.observe
               THEN /\ lastOp' = Op("delete", out.result)
                    /\ sent' = IF notified THEN out.sent ELSE <<>>
               ELSE UNCHANGED <<lastOp, sent>>
            /\ audit' = IF out.result = "ok"
                        THEN create_audit_log(audit, user, "booking_deleted", id, now,
                                              stored)
                        ELSE audit
            /\ UNCHANGED <<policy, now, requests, site>>

\* The booking operations with the audit table recorded.
AuditIntervals == {<<0, 1>>, <<1, 2>>}

AuditScope == Scope({"mgr"}, {"L1"}, AuditIntervals, {"note"}, {NoPolicy}, FALSE)

InitAudit == InitIn(AuditScope)

NextAudit ==
    \/ CreateBooking(AuditScope)
    \/ AuditedUpdate(AuditScope)
    \/ DeleteBooking(AuditScope)
    \/ StatusAction(AuditScope)
    \/ RequestException(AuditScope)
    \/ ResolveException(AuditScope)
    \/ Tick(AuditScope)

SpecAudit == InitAudit /\ [][NextAudit]_vars

\* --------------------------------------------------------------- dashboards
\* users/urls.py: the role dashboards, and the redirect to one's own.
Dashboards ==
    {"student_dashboard", "lecturer_dashboard", "program_admin_dashboard",
     "lab_technician_dashboard", "it_support_dashboard", "manager_dashboard"}

\* The allowed_roles of the mixin each dashboard view inherits.
allowed_roles(view) ==
    CASE view = "student_dashboard" -> {"student"}
      [] view = "lecturer_dashboard" -> {"lecturer"}
      [] view = "program_admin_dashboard" -> {"program_admin"}
      [] view = "lab_technician_dashboard" -> {"lab_technician"}
      [] view = "it_support_dashboard" -> {"it_support"}
      [] view = "manager_dashboard" -> {"manager"}

\* A response: a page (200), a redirect (302) to another URL, or an error.
Served == [status |-> 200, to |-> None]

Redirect(to) == [status |-> 302, to |-> to]

ServerError == [status |-> 500, to |-> None]

\* Variant: RoleRequiredMixin.test_func admitting every authenticated user.
test_func_any_role(user, view) == user # None

\* RoleRequiredMixin.test_func
test_func(user, view) ==
    IF user = None THEN FALSE ELSE role(user) \in allowed_roles(view)

\* RoleRequiredMixin.handle_no_permission
handle_no_permission(user) ==
    IF user = None THEN Redirect("login") ELSE Redirect("dashboard_redirect")

\* A dashboard view: LoginRequiredMixin.dispatch, then
\* UserPassesTestMixin.dispatch, then the template.
DashboardView(user, view) ==
    IF user = None THEN handle_no_permission(user)
    ELSE IF ~test_func(user, view) THEN handle_no_permission(user)
    ELSE Served

\* Variant: the redirect table of dashboard_redirect sending a lab technician
\* to the manager's dashboard.
role_redirects_shifted(r) ==
    CASE r = "student" -> "student_dashboard"
      [] r = "lecturer" -> "lecturer_dashboard"
      [] r = "program_admin" -> "program_admin_dashboard"
      [] r = "lab_technician" -> "manager_dashboard"
      [] r = "it_support" -> "it_support_dashboard"
      [] r = "manager" -> "manager_dashboard"
      [] OTHER -> "/"

\* role_redirects.get(user.role, '/')
role_redirects(r) ==
    CASE r = "student" -> "student_dashboard"
      [] r = "lecturer" -> "lecturer_dashboard"
      [] r = "program_admin" -> "program_admin_dashboard"
      [] r = "lab_technician" -> "lab_technician_dashboard"
      [] r = "it_support" -> "it_support_dashboard"
      [] r = "manager" -> "manager_dashboard"
      [] OTHER -> "/"

\* views.dashboard_redirect: the responses it can give.  For an anonymous
\* browser it redirects to the URL named 'login_with_otp', a name users/urls.py
\* does not define: the login page if the project's root URLconf defines it,
\* a NoReverseMatch error otherwise.
dashboard_redirect(user) ==
    IF user = None THEN {Redirect("login"), ServerError}
    ELSE {Redirect(role_redirects(role(user)))}

\* The responses to GET url for the session's user.
Responses(user, url) ==
    IF url \in Dashboards THEN {DashboardView(user, url)}
    ELSE IF url = "dashboard_redirect" THEN dashboard_redirect(user)
    ELSE {Served}

\* The browser asks for a page by its address.
Navigate ==
    \E url \in Dashboards \cup {"dashboard_redirect"} :
        /\ location.url = None \/ location.status # 0
        /\ location' = [url |-> url, status |-> 0, hops |-> 0]
        /\ lastOp' = Op("navigate", url)
        /\ UNCHANGED <<bookings, exceptions, policy, now, sent, requests, audit,
                       accounts, otps, session>>

\* The server answers the pending request; the browser shows the page or
\* follows the redirect.
Request ==
    \E resp \in Responses(session.user, location.url) :
        /\ location.url # None /\ location.status = 0
        /\ location' = IF resp.status = 302
                       THEN [url |-> resp.to, status |-> 0,
                             hops |-> IF location.hops < MaxHops THEN location.hops + 1
                                      ELSE MaxHops]
                       ELSE [location EXCEPT !.status = resp.status]
        /\ lastOp' = [op |-> location.url, result |-> resp.status, user |-> session.user]
        /\ UNCHANGED <<bookings, exceptions, policy, now, sent, requests, audit,
                       accounts, otps, session>>

\* views.logout_view: logout(request) flushes the session, then the login page.
logout_view ==
    /\ location.url = None \/ location.status # 0
    /\ session' = NoSession
    /\ location' = [url |-> "login", status |-> 0, hops |-> 0]
    /\ lastOp' = Op("logout", "ok")
    /\ UNCHANGED <<bookings, exceptions, policy, now, sent, requests, audit,
                   accounts, otps>>

\* A browser with the session of any user, or of none, moving between the
\* dashboards.
SiteUsers == Emails \ {"new"}

InitDashboard ==
    /\ bookings = <<>> /\ exceptions = <<>> /\ policy = NoPolicy /\ now = 0
    /\ sent = <<>> /\ lastOp = Op("init", "ok")
    /\ requests = [r \in 1..NumRequests |-> Idle]
    /\ audit = <<>>
    /\ accounts = [e \in Emails |-> IF e = "new" THEN Unregistered ELSE Registered]
    /\ otps = <<>>
    /\ session \in {[NoSession EXCEPT !.user = u] : u \in SiteUsers \cup {None}}
    /\ location = NoPage

NextDashboard == Navigate \/ Request \/ logout_view

SpecDashboard == InitDashboard /\ [][NextDashboard]_vars

\* The browser follows every redirect it is sent.
SpecDashboardLive == SpecDashboard /\ WF_vars(Request)

\* ------------------------------------------------------------ one-time codes
\* EmailOTP.PURPOSE_CHOICES, and the codes generate_otp can draw (two of the
\* 900000, so that two rows can carry the same code).
Purposes == {"registration", "login"}

Codes == {"111111", "222222"}

\* A row of EmailOTP; its place in the table is its creation order.
NewOtp(user, otp_code, purpose, t) ==
    [user |-> user, otp_code |-> otp_code, purpose |-> purpose, is_used |-> FALSE,
     expires_at |-> t + OtpLife]

\* EmailOTP.is_expired
is_expired(otp, t) == t > otp.expires_at

\* What a view of the users app leaves: the tables, the session, and its
\* response (result), a page rendered at `to` or a redirect to it.
SiteOutcome(result, accts, os, sess, to, redirected) ==
    [result |-> result, accounts |-> accts, otps |-> os, session |-> sess, to |-> to,
     redirected |-> redirected]

\* views.register (POST).  The form is valid when the address is not taken.
\* send_mail raises when the mail cannot be sent (mailed = FALSE): the user
\* and the code are stored by then, the session is not yet written.
register(accts, os, sess, t, email, otp, mailed) ==
    IF accts[email].exists
    THEN SiteOutcome("invalid", accts, os, sess, "register", FALSE)
    ELSE LET created == [accts EXCEPT ![email] = [exists |-> TRUE, is_active |-> FALSE,
                                                  is_verified |-> FALSE]]
             codes == Append(os, NewOtp(email, otp, "registration", t))
         IN  IF ~mailed THEN SiteOutcome("error", created, codes, sess, "register", FALSE)
             ELSE SiteOutcome("ok", created, codes,
                              [sess EXCEPT !.pending_email = email,
                                           !.otp_purpose = "registration"],
                              "verify_email", TRUE)

\* ModelBackend.authenticate: the user exists, the password is right, and the
\* user is active.
authenticate(accts, email, password_ok) ==
    accts[email].exists /\ password_ok /\ accts[email].is_active

\* views.login_with_otp (POST)
login_with_otp(accts, os, sess, t, email, password_ok, otp, mailed) ==
    IF ~authenticate(accts, email, password_ok)
    THEN SiteOutcome("invalid", accts, os, sess, "login", FALSE)
    ELSE LET codes == Append(os, NewOtp(email, otp, "login", t))
         IN  IF ~mailed THEN SiteOutcome("error", accts, codes, sess, "login", FALSE)
             ELSE SiteOutcome("ok", accts, codes,
                              [sess EXCEPT !.pending_email = email, !.otp_purpose = "login"],
                              "verify_email", TRUE)

\* Variant: the filter without is_used = False.
Matching_used_too(os, user, otp_code, purpose) ==
    {i \in DOMAIN os : /\ os[i].user = user /\ os[i].otp_code = otp_code
                       /\ os[i].purpose = purpose}

\* The rows verify_email's filter selects.
Matching(os, user, otp_code, purpose) ==
    {i \in DOMAIN os : /\ os[i].user = user /\ os[i].otp_code = otp_code
                       /\ os[i].purpose = purpose /\ ~os[i].is_used}

\* order_by('-created_at').first()
Newest(rows) == CHOOSE i \in rows : \A j \in rows : j <= i

\* views.verify_email (POST)
verify_email(accts, os, sess, t, otp_code) ==
    LET pending_email == sess.pending_email
        purpose == IF sess.otp_purpose = None THEN "registration" ELSE sess.otp_purpose
        rows == Matching(os, pending_email, otp_code, purpose)
    IN  IF pending_email = None
        THEN SiteOutcome("no_session", accts, os, sess, "login", TRUE)
        ELSE IF rows = {}
        THEN SiteOutcome("invalid", accts, os, sess, "verify_email", TRUE)
        ELSE LET i == Newest(rows)
                 used == [os EXCEPT ![i].is_used = TRUE]
             IN  IF is_expired(os[i], t)
                 THEN SiteOutcome("expired", accts, used,
                                  [sess EXCEPT !.pending_email = None, !.otp_purpose = None],
                                  "login", TRUE)
                 ELSE SiteOutcome("ok",
                                  IF purpose = "registration"
                                  THEN [accts EXCEPT ![pending_email].is_active = TRUE,
                                                     ![pending_email].is_verified = TRUE]
                                  ELSE accts,
                                  used,
                                  [user |-> pending_email, pending_email |-> None,
                                   otp_purpose |-> None],
                                  "dashboard_redirect", TRUE)

\* views.resend_otp
resend_otp(accts, os, sess, t, otp, mailed) ==
    IF sess.pending_email = None \/ sess.otp_purpose = None
    THEN SiteOutcome("no_session", accts, os, sess, "verify_email", FALSE)
    ELSE SiteOutcome(IF mailed THEN "ok" ELSE "error", accts,
                     Append(os, NewOtp(sess.pending_email, otp, sess.otp_purpose, t)),
                     sess, "verify_email", FALSE)

\* The step of a request to the users app.
SiteHandle(op, out) ==
    /\ accounts' = out.accounts
    /\ otps' = out.otps
    /\ session' = out.session
    /\ location' = [url |-> out.to, status |-> IF out.redirected THEN 0 ELSE 200,
                    hops |-> 0]
    /\ lastOp' = Op(op, out.result)
    /\ UNCHANGED <<bookings, exceptions, policy, now, sent, requests, audit>>

OtpEmails == {"stu", "new"}

Register ==
    \E email \in OtpEmails, otp \in Codes, mailed \in BOOLEAN :
        /\ Len(otps) < MaxOtps
        /\ SiteHandle("register", register(accounts, otps, session, now, email, otp, mailed))

LoginWithOtp ==
    \E email \in OtpEmails, password_ok \in BOOLEAN, otp \in Codes, mailed \in BOOLEAN :
        /\ Len(otps) < MaxOtps
        /\ SiteHandle("login", login_with_otp(accounts, otps, session, now, email,
                                              password_ok, otp, mailed))

VerifyEmail ==
    \E otp_code \in Codes :
        SiteHandle("verify", verify_email(accounts, otps, session, now, otp_code))

ResendOtp ==
    \E otp \in Codes, mailed \in BOOLEAN :
        /\ Len(otps) < MaxOtps
        /\ SiteHandle("resend", resend_otp(accounts, otps, session, now, otp, mailed))

\* The clock of the users app.
SiteTick ==
    /\ now < MaxSiteNow
    /\ now' = now + 1
    /\ lastOp' = Op("tick", "ok")
    /\ UNCHANGED <<bookings, exceptions, policy, sent, requests, audit, site>>

\* A browser nobody is logged in on, a student who has an account and an
\* address that has none.
InitOtp ==
    /\ bookings = <<>> /\ exceptions = <<>> /\ policy = NoPolicy /\ now = 0
    /\ sent = <<>> /\ lastOp = Op("init", "ok")
    /\ requests = [r \in 1..NumRequests |-> Idle]
    /\ audit = <<>>
    /\ SiteIdle

NextOtp ==
    \/ Register
    \/ LoginWithOtp
    \/ VerifyEmail
    \/ ResendOtp
    \/ logout_view
    \/ Request
    \/ SiteTick

SpecOtp == InitOtp /\ [][NextOtp]_vars

\* ==================================================================== claims
Active(b) == b.status \in {"pending", "approved"}

\* Some stored booking other than pk is active and overlaps the candidate.
ActiveOverlap(db, lab, start, end, pk) ==
    \E i \in DOMAIN db :
        i # pk /\ Active(db[i]) /\ db[i].lab = lab /\ db[i].start < end /\ db[i].end > start

\* The store without row i.
Without(db, i) == SubSeq(db, 1, i - 1) \o SubSeq(db, i + 1, Len(db))

PositiveIntervals == {iv \in Intervals : iv[1] < iv[2]}

\* ---- C1
\* C1: in every state reached by requests handled one at a time (create,
\* edit, approve/reject/cancel/complete, bulk, exception request and
\* resolution, recurrence expansion, cancel-series), no two distinct bookings
\* of one lab that are both pending or approved have overlapping half-open
\* intervals.
NoOverlap ==
    \A i, j \in DOMAIN bookings :
        (i # j /\ Active(bookings[i]) /\ Active(bookings[j])
              /\ bookings[i].lab = bookings[j].lab)
            => ~(bookings[i].start < bookings[j].end /\ bookings[j].start < bookings[i].end)

\* Two active bookings of one lab that touch, the second one re-activated
\* by an approved policy exception.
C1_Witness ==
    \E i, j \in DOMAIN bookings, x \in DOMAIN exceptions :
        /\ i # j /\ Active(bookings[i]) /\ Active(bookings[j])
        /\ bookings[i].lab = bookings[j].lab
        /\ bookings[i].end = bookings[j].start
        /\ exceptions[x].status = "approved" /\ exceptions[x].booking = j

\* ---- C2
\* C2: of two creation requests for overlapping intervals on one lab whose
\* steps interleave, at most one ends with a stored booking.
C2_AtMostOneCreated ==
    \A r1, r2 \in 1..NumRequests :
        (/\ r1 < r2
         /\ requests[r1].kind = "create" /\ requests[r2].kind = "create"
         /\ requests[r1].pc = "done" /\ requests[r2].pc = "done"
         /\ requests[r1].lab = requests[r2].lab
         /\ requests[r1].start < requests[r2].end
         /\ requests[r2].start < requests[r1].end)
            => ~(requests[r1].result = "ok" /\ requests[r2].result = "ok")

\* ---- C3
\* C3: each conflict detector answers true exactly when some stored booking
\* other than the excluded one has the candidate's lab, status pending or
\* approved, start < candidate end and end > candidate start.
C3_ConflictIff ==
    \A lab \in Labs, iv \in PositiveIntervals, pk \in 0..Len(bookings) :
        /\ has_conflict(bookings, lab, iv[1], iv[2], pk)
               = ActiveOverlap(bookings, lab, iv[1], iv[2], pk)
        /\ has_booking_conflict(bookings, lab, iv[1], iv[2], pk, TRUE)
               = ActiveOverlap(bookings, lab, iv[1], iv[2], pk)

\* ---- C4
AllowedTransitions ==
    {<<"pending", "approve", "approved">>, <<"pending", "reject", "rejected">>,
     <<"pending", "cancel", "cancelled">>, <<"approved", "cancel", "cancelled">>,
     <<"approved", "complete", "completed">>}

\* C4: a single status action changes a booking's status only along the five
\* allowed transitions; on any other (status, action) pair it is refused and
\* the store is left as it was.
C4_OnlyAllowedTransitions ==
    [][lastOp'.op \in Actions =>
          /\ \A i \in DOMAIN bookings :
                bookings'[i].status # bookings[i].status =>
                    <<bookings[i].status, lastOp'.op, bookings'[i].status>>
                        \in AllowedTransitions
          /\ lastOp'.result # "ok" => bookings' = bookings]_vars

\* ---- C5
\* C5: once a booking is rejected, cancelled or completed, no step changes
\* its status.
C5_TerminalIsFinal ==
    [][\A i \in DOMAIN bookings :
          bookings[i].status \in {"rejected", "cancelled", "completed"}
              => bookings'[i].status = bookings[i].status]_vars

\* ---- C6
\* C6: of two approve requests by approvers that both loaded the same
\* booking while it was pending, exactly one is answered ok.
C6_ExactlyOneApproves ==
    \A r1, r2 \in 1..NumRequests :
        (/\ r1 < r2
         /\ requests[r1].kind = "approve" /\ requests[r2].kind = "approve"
         /\ requests[r1].pc = "done" /\ requests[r2].pc = "done"
         /\ requests[r1].id = requests[r2].id
         /\ requests[r1].seen.status = "pending" /\ requests[r2].seen.status = "pending"
         /\ user_can_approve(requests[r1].user) /\ user_can_approve(requests[r2].user))
            => ((requests[r1].result = "ok") # (requests[r2].result = "ok"))

\* ---- C7
\* C7: a creation, an edit or a recurrence occurrence is refused or skipped
\* for conflict only when a pending or approved booking overlaps it: stored
\* bookings in any other status never block.
C7_InactiveNeverBlocks ==
    /\ \A user \in Users, lab \in Labs, iv \in PositiveIntervals :
          CreateError(bookings, policy, now, user, lab, iv[1], iv[2]) = "conflict"
              => ActiveOverlap(bookings, lab, iv[1], iv[2], 0)
    /\ \A id \in DOMAIN bookings, lab \in Labs, iv \in PositiveIntervals :
          BookingUpdateView(bookings, exceptions, policy, now, "root", id, lab,
                            iv[1], iv[2]).result = "conflict"
              => ActiveOverlap(bookings, lab, iv[1], iv[2], id)
    /\ \A pid \in DOMAIN bookings :
          LET s == bookings[pid].start + delta("daily")
              e == bookings[pid].end + delta("daily")
          IN  (/\ ~policy.is_active /\ s >= now /\ s < e
               /\ ~ActiveOverlap(bookings, bookings[pid].lab, s, e, 0))
                  => create_recurring_bookings(bookings, exceptions, policy, now, pid,
                                               "daily", DateOf(s)).result = "ok"

\* ---- C8
\* C8: a cancelled booking changes the answer of no conflict check: for every
\* candidate, each detector and the creation validation answer on the store
\* as they do on the store without the cancelled booking.
C8_CancelledNeverBlocks ==
    \A i \in DOMAIN bookings :
        bookings[i].status = "cancelled" =>
            \A user \in Users, lab \in Labs, iv \in PositiveIntervals :
                LET before == Without(bookings, i)
                IN  /\ has_booking_conflict(bookings, lab, iv[1], iv[2], 0, FALSE)
                         = has_booking_conflict(before, lab, iv[1], iv[2], 0, FALSE)
                    /\ has_conflict(bookings, lab, iv[1], iv[2], 0)
                         = has_conflict(before, lab, iv[1], iv[2], 0)
                    /\ FormOverlapping(bookings, lab, iv[1], iv[2], 0)
                         = FormOverlapping(before, lab, iv[1], iv[2], 0)
                    /\ CreateError(bookings, policy, now, user, lab, iv[1], iv[2])
                         = CreateError(before, policy, now, user, lab, iv[1], iv[2])

\* A booking was created and cancelled, and a later creation for the same
\* lab and interval was accepted.
C8_Witness ==
    \E i, j \in DOMAIN bookings :
        /\ i < j
        /\ bookings[i].status = "cancelled" /\ Active(bookings[j])
        /\ bookings[i].lab = bookings[j].lab
        /\ bookings[i].start = bookings[j].start /\ bookings[i].end = bookings[j].end
        /\ bookings[j].parent_booking = 0

\* ---- C9
\* C9: a creation request, by any user, whose interval overlaps a pending or
\* approved booking of the same lab is refused by both creation views: the
\* store stays as it was and nothing is sent.
C9_ConflictPersistsNothing ==
    \A user \in Users, lab \in Labs, iv \in PositiveIntervals :
        ActiveOverlap(bookings, lab, iv[1], iv[2], 0) =>
            LET a == create_booking(bookings, exceptions, policy, now, user, lab,
                                    iv[1], iv[2])
                b == BookingCreateWithCalendarView(bookings, exceptions, policy, now,
                                                   user, lab, iv[1], iv[2])
            IN  /\ a.result # "ok" /\ a.bookings = bookings /\ a.sent = <<>>
                /\ b.result # "ok" /\ b.bookings = bookings /\ b.sent = <<>>

\* A creation request has just been refused for conflict while an approved
\* booking is stored.
C9_Witness ==
    /\ lastOp = Op("create", "conflict")
    /\ sent = <<>>
    /\ Len(bookings) = 1
    /\ bookings[1].status = "approved"

\* ---- C10
Elevated(u) ==
    \/ u = "root"
    \/ role(u) \in {"program_admin", "lab_technician", "it_support", "it_admin",
                    "manager", "lecturer"}

\* C10: a successful creation request stores exactly one new booking; it is
\* approved with approved_by its creator when the creator is elevated, and
\* pending with no approver otherwise; no step adds a booking in any other
\* status.
C10_CreatedStatus ==
    [][/\ \A i \in (DOMAIN bookings') \ (DOMAIN bookings) :
             bookings'[i].status \in {"pending", "approved"}
       /\ (lastOp'.op = "create" /\ lastOp'.result = "ok") =>
             /\ Len(bookings') = Len(bookings) + 1
             /\ LET b == bookings'[Len(bookings')]
                IN  IF Elevated(b.requester)
                    THEN b.status = "approved" /\ b.approved_by = b.requester
                    ELSE b.status = "pending" /\ b.approved_by = None]_vars

\* A technician (admin role, no right to approve) and a student have each
\* just created a booking.
C10_Witness ==
    /\ lastOp = Op("create", "ok")
    /\ Len(bookings) = 2
    /\ bookings[1].requester = "tech" /\ bookings[1].status = "approved"
    /\ bookings[1].approved_by = "tech"
    /\ bookings[2].requester = "stu" /\ bookings[2].status = "pending"
    /\ bookings[2].approved_by = None

\* ---- C11
CanApprove(u) ==
    \/ u = "root"
    \/ role(u) \in {"program_admin", "manager", "lecturer"}

\* C11: approve, reject or complete by an actor who cannot approve, and
\* cancel by an actor who is neither the requester nor an admin, is refused
\* by both single-booking handlers (and a bulk action by the bulk handler)
\* with the store unchanged and nothing sent.
C11_DeniedBeforeMutation ==
    \A user \in Users, id \in DOMAIN bookings, action \in Actions, n \in RawNotes :
        LET unauthorized == IF action = "cancel"
                            THEN user # bookings[id].requester /\ ~Elevated(user)
                            ELSE ~CanApprove(user)
            a == booking_status_action(bookings, exceptions, user, id, action, n)
            b == BookingDetailView_post(bookings, exceptions, user, id, action, n)
            c == bulk_booking_action(bookings, exceptions, user, {id},
                                     IF action = "reject" THEN "reject" ELSE "approve", n)
        IN  unauthorized =>
                /\ a.result # "ok" /\ a.bookings = bookings /\ a.sent = <<>>
                /\ b.result # "ok" /\ b.bookings = bookings /\ b.sent = <<>>
                /\ action \in {"approve", "reject"} =>
                      (c.result # "ok" /\ c.bookings = bookings /\ c.sent = <<>>)

\* An approve request on a pending booking has just been denied.
C11_Witness ==
    /\ lastOp = Op("approve", "denied")
    /\ sent = <<>>
    /\ \E i \in DOMAIN bookings :
          bookings[i].status = "pending" /\ bookings[i].approved_by = None

\* ---- C12
\* C12: a reject of a pending booking whose reason is empty or only white
\* space is refused and changes nothing, in the single-booking handlers and
\* in the bulk handler; a reject with a reason stores that reason.
C12_RejectNeedsReason ==
    \A user \in Users, id \in DOMAIN bookings, n \in RawNotes :
        (CanApprove(user) /\ bookings[id].status = "pending") =>
            LET a == booking_status_action(bookings, exceptions, user, id, "reject", n)
                b == BookingDetailView_post(bookings, exceptions, user, id, "reject", n)
                c == bulk_booking_action(bookings, exceptions, user, {id}, "reject", n)
            IN  IF n \in {"", " "}
                THEN /\ a.result # "ok" /\ a.bookings = bookings
                     /\ b.result # "ok" /\ b.bookings = bookings
                     /\ c.result # "ok" /\ c.bookings = bookings
                ELSE /\ a.bookings[id].status = "rejected" /\ a.bookings[id].admin_notes = n
                     /\ b.bookings[id].status = "rejected" /\ b.bookings[id].admin_notes = n
                     /\ c.bookings[id].status = "rejected" /\ c.bookings[id].admin_notes = n

\* ---- C13
\* C13: approving a pending booking by an actor who can approve succeeds,
\* sets its status to approved and its approved_by to the actor, keeps its
\* lab, start, end, requester, purpose, parent and exception fields, stores
\* the admin notes only when some were given, and leaves every other booking
\* and every policy exception as it was.
C13_ApproveFrame ==
    \A user \in Users, id \in DOMAIN bookings, n \in RawNotes :
        (CanApprove(user) /\ bookings[id].status = "pending") =>
            LET out == booking_status_action(bookings, exceptions, user, id, "approve", n)
                old == bookings[id]
                new == out.bookings[id]
            IN  /\ out.result = "ok"
                /\ new.status = "approved" /\ new.approved_by = user
                /\ new.lab = old.lab /\ new.start = old.start /\ new.end = old.end
                /\ new.requester = old.requester /\ new.purpose = old.purpose
                /\ new.parent_booking = old.parent_booking
                /\ new.is_policy_exception = old.is_policy_exception
                /\ new.exception_reason = old.exception_reason
                /\ new.admin_notes = (IF n \in {"", " "} THEN old.admin_notes ELSE n)
                /\ DOMAIN out.bookings = DOMAIN bookings
                /\ \A j \in DOMAIN bookings : j # id => out.bookings[j] = bookings[j]
                /\ out.exceptions = exceptions

\* A manager has just approved the student's booking while a second booking
\* is stored.
C13_Witness ==
    /\ lastOp = Op("approve", "ok")
    /\ Len(bookings) = 2
    /\ bookings[1].requester = "stu" /\ bookings[1].status = "approved"
    /\ bookings[1].approved_by = "mgr"
    /\ bookings[2].status = "pending"
    /\ sent = <<Note("booking_approved", "stu", 1)>>

\* ---- C14
\* C14: a successful approve, reject, cancel or complete sends exactly one
\* notification, to the requester, except a cancel by the requester, which
\* sends none; a refused action sends none; a creation sends to the admins
\* when the booking is stored pending and to nobody when it is auto-approved
\* or refused.
C14_OneNotification ==
    /\ \A user \in Users, id \in DOMAIN bookings, action \in Actions, n \in RawNotes :
          \A out \in {booking_status_action(bookings, exceptions, user, id, action, n),
                      BookingDetailView_post(bookings, exceptions, user, id, action, n)} :
              IF out.result # "ok" THEN out.sent = <<>>
              ELSE IF action = "cancel" /\ user = bookings[id].requester
              THEN out.sent = <<>>
              ELSE Len(out.sent) = 1 /\ out.sent[1].to = bookings[id].requester
    /\ \A user \in Users, lab \in Labs, iv \in Intervals :
          \A out \in {create_booking(bookings, exceptions, policy, now, user, lab,
                                     iv[1], iv[2]),
                      BookingCreateWithCalendarView(bookings, exceptions, policy, now,
                                                    user, lab, iv[1], iv[2])} :
              IF out.result = "ok" /\ out.bookings[Len(out.bookings)].status = "pending"
              THEN /\ out.sent # <<>>
                   /\ \A k \in DOMAIN out.sent :
                         out.sent[k].kind = "booking_created" /\ Elevated(out.sent[k].to)
              ELSE out.sent = <<>>

\* ---- C15
\* C15: whatever goes wrong in the dispatch of the notifications, a creation
\* or a status action leaves the same store and gives the same response as
\* it does when the dispatch goes well.
C15_NotificationNeverBlocks ==
    \A failure \in NotifyFailures, user \in Users :
        /\ \A lab \in Labs, iv \in Intervals :
              LET good == create_booking_notifying(bookings, exceptions, policy, now,
                                                   user, lab, iv[1], iv[2], "none")
                  bad == create_booking_notifying(bookings, exceptions, policy, now,
                                                  user, lab, iv[1], iv[2], failure)
                  cgood == BookingCreateWithCalendarView_notifying(
                               bookings, exceptions, policy, now, user, lab, iv[1], iv[2],
                               "none")
                  cbad == BookingCreateWithCalendarView_notifying(
                              bookings, exceptions, policy, now, user, lab, iv[1], iv[2],
                              failure)
              IN  /\ bad.result = good.result /\ bad.bookings = good.bookings
                  /\ cbad.result = cgood.result /\ cbad.bookings = cgood.bookings
        /\ \A id \in DOMAIN bookings, action \in Actions, n \in RawNotes :
              LET good == booking_status_action_notifying(bookings, exceptions, user, id,
                                                          action, n, "none")
                  bad == booking_status_action_notifying(bookings, exceptions, user, id,
                                                         action, n, failure)
              IN  bad.result = good.result /\ bad.bookings = good.bookings

\* ---- C16
Resolution(action) == IF action = "approve" THEN "approved" ELSE "rejected"

\* C16: when an elevated reviewer resolves a pending policy exception, the
\* request succeeds, the exception takes the decided status, and its booking
\* takes the same status with the exception flag cleared (and the reason
\* cleared on a rejection), whatever policy limit the booking exceeds.
C16_ResolutionTakesEffect ==
    \A x \in DOMAIN exceptions, user \in Users, action \in {"approve", "reject"} :
        (exceptions[x].status = "pending" /\ Elevated(user)) =>
            LET out == PolicyExceptionApprovalView(bookings, exceptions, policy, now,
                                                   user, x, action)
                id == exceptions[x].booking
            IN  /\ out.result = "ok"
                /\ out.exceptions[x].status = Resolution(action)
                /\ out.bookings[id].status = Resolution(action)
                /\ ~out.bookings[id].is_policy_exception
                /\ (action = "reject" => out.bookings[id].exception_reason = None)

\* ---- C17
\* C17: a resolution request is all-or-nothing: either the exception and its
\* booking both carry the decision afterwards, or neither record has changed.
C17_ResolutionAtomic ==
    \A x \in DOMAIN exceptions, user \in Users, action \in {"approve", "reject"} :
        LET out == PolicyExceptionApprovalView(bookings, exceptions, policy, now,
                                               user, x, action)
            id == exceptions[x].booking
        IN  \/ out.exceptions = exceptions /\ out.bookings = bookings
            \/ /\ out.result = "ok"
               /\ out.exceptions[x].status = Resolution(action)
               /\ out.exceptions[x].reviewed_by = user
               /\ out.bookings[id].status = Resolution(action)

\* A resolution has just failed on the save of the booking, and the exception
\* and the booking are as they were: pending, flagged.
C17_Witness ==
    /\ lastOp \in {Op("exception_approve", "error"), Op("exception_reject", "error")}
    /\ exceptions # <<>>
    /\ exceptions[1].status = "pending"
    /\ exceptions[1].reviewed_by = None
    /\ bookings[exceptions[1].booking].status = "pending"
    /\ bookings[exceptions[1].booking].is_policy_exception

\* ---- C18
\* The intervals a request is tried with under an active policy: today, the
\* next day and the day after, of every length up to MaxPolicyDur.
PolicyCandidates ==
    {iv \in (0..MaxPolicyStart) \X (0..MaxPolicyStart + MaxPolicyDur) :
        iv[2] >= iv[1] /\ iv[2] <= iv[1] + MaxPolicyDur}

Candidate(user, lab, iv, flag) ==
    [NewBooking(user, lab, iv[1], iv[2]) EXCEPT !.is_policy_exception = flag]

\* The policy with one rule taken out, to say "valid but for that rule".
NoDurationLimit(pol) == [pol EXCEPT !.max_hours = MaxPolicyDur + 1]

NoDateWindow(pol) ==
    [pol EXCEPT !.advance_notice_days = 0, !.max_advance_booking_days = MaxPolicyStart]

InDateWindow(pol, t, start) ==
    /\ start >= t + pol.advance_notice_days * DayLen
    /\ DateOf(start) <= DateOf(t + pol.max_advance_booking_days * DayLen)

\* C19: under an active policy an unflagged booking that is valid but for the
\* booking window is accepted exactly when its start is no sooner than now
\* plus the notice period and its start date is no later than the date of now
\* plus the booking horizon, that date itself included.  This holds for the
\* validation itself and for creation.
C19_DateWindow ==
    policy.is_active =>
        \A user \in Users, lab \in Labs, iv \in PolicyCandidates :
            LET b == Candidate(user, lab, iv, FALSE)
                inside == InDateWindow(policy, now, iv[1])
            IN  /\ clean(bookings, NoDateWindow(policy), now, b, 0) = "ok" =>
                      /\ (clean(bookings, policy, now, b, 0) = "ok") = inside
                      /\ clean(bookings, policy, now, b, 0) \in {"ok", "notice", "horizon"}
                /\ create_booking(bookings, exceptions, NoDateWindow(policy), now,
                                  user, lab, iv[1], iv[2]).result = "ok" =>
                      (create_booking(bookings, exceptions, policy, now,
                                      user, lab, iv[1], iv[2]).result = "ok") = inside

\* A booking has just been created under a policy with a notice period, its
\* start on the last bookable date.
C19_Witness ==
    /\ lastOp = Op("create", "ok")
    /\ policy.is_active
    /\ policy.advance_notice_days > 0
    /\ Len(bookings) = 1
    /\ ~bookings[1].is_policy_exception
    /\ bookings[1].start >= now + policy.advance_notice_days * DayLen
    /\ DateOf(bookings[1].start) = DateOf(now + policy.max_advance_booking_days * DayLen)

\* ---- C20
NoWorkingHours(pol) == [pol EXCEPT !.work_start_hour = 0, !.work_end_hour = DayLen]

\* C20: under an active policy an unflagged booking that is valid but for the
\* working hours is refused exactly when the time of day of its start is
\* before work_start or the time of day of its end is after work_end; an end
\* exactly at work_end is accepted.  This holds for the validation itself and
\* for creation.
C20_WorkingHours ==
    policy.is_active =>
        \A user \in Users, lab \in Labs, iv \in PolicyCandidates :
            LET b == Candidate(user, lab, iv, FALSE)
                outside == \/ TimeOf(iv[1]) < policy.work_start_hour
                           \/ TimeOf(iv[2]) > policy.work_end_hour
            IN  /\ clean(bookings, NoWorkingHours(policy), now, b, 0) = "ok" =>
                      clean(bookings, policy, now, b, 0)
                          = IF outside THEN "hours" ELSE "ok"
                /\ create_booking(bookings, exceptions, NoWorkingHours(policy), now,
                                  user, lab, iv[1], iv[2]).result = "ok" =>
                      create_booking(bookings, exceptions, policy, now,
                                     user, lab, iv[1], iv[2]).result
                          = IF outside THEN "hours" ELSE "ok"

\* A booking has just been created that starts exactly at work_start and ends
\* exactly at work_end.
C20_Witness ==
    /\ lastOp = Op("create", "ok")
    /\ policy.is_active
    /\ Len(bookings) = 1
    /\ ~bookings[1].is_policy_exception
    /\ TimeOf(bookings[1].start) = policy.work_start_hour
    /\ TimeOf(bookings[1].end) = policy.work_end_hour

\* ---- C21
\* The intervals that end at or before their start.
MalformedIntervals ==
    {iv \in (0..MaxStart + MaxDur) \X (0..MaxStart + MaxDur) : iv[2] <= iv[1]}

\* C21: every stored booking ends after it starts; and a creation or an edit
\* with an interval that ends at or before its start is refused as malformed
\* (not as a conflict, whatever the store holds), stores nothing and sends
\* nothing.
C21_EndAfterStart ==
    /\ \A i \in DOMAIN bookings : bookings[i].end > bookings[i].start
    /\ \A user \in Users, lab \in Labs, iv \in MalformedIntervals :
          LET c == create_booking(bookings, exceptions, policy, now, user, lab, iv[1], iv[2])
              v == BookingCreateWithCalendarView(bookings, exceptions, policy, now,
                                                 user, lab, iv[1], iv[2])
          IN  /\ c = Outcome("end_before_start", bookings, exceptions, <<>>)
              /\ v = Outcome("end_before_start", bookings, exceptions, <<>>)
              /\ \A id \in DOMAIN bookings :
                    LET e == BookingUpdateView(bookings, exceptions, policy, now,
                                               user, id, lab, iv[1], iv[2])
                    IN  /\ e.result \in {"denied", "end_before_start"}
                        /\ e.bookings = bookings /\ e.exceptions = exceptions
                        /\ e.sent = <<>>

\* ---- C22
\* C22: a creation with a start earlier than now is refused and stores
\* nothing; but on a stored booking whose start has passed, a request that
\* changes neither start nor end (a complete or cancel, the resolution of its
\* policy exception, an edit that keeps lab, start and end) has the outcome
\* it would have had at the booking's start: it is not refused for the past.
C22_PastOnlyAtCreation ==
    /\ \A user \in Users, lab \in Labs, iv \in Intervals :
          iv[1] < now =>
              LET c == create_booking(bookings, exceptions, policy, now,
                                      user, lab, iv[1], iv[2])
                  v == BookingCreateWithCalendarView(bookings, exceptions, policy, now,
                                                     user, lab, iv[1], iv[2])
              IN  /\ c.result # "ok" /\ c.bookings = bookings
                  /\ v.result # "ok" /\ v.bookings = bookings
    /\ \A id \in DOMAIN bookings, user \in Users :
          bookings[id].start < now =>
              LET b == bookings[id]
              IN  /\ \A action \in {"complete", "cancel"}, n \in RawNotes :
                        /\ booking_status_action(bookings, exceptions, user, id, action,
                                                 n).result
                               \in {"ok", "denied", "invalid"}
                        /\ BookingDetailView_post(bookings, exceptions, user, id, action,
                                                  n).result
                               \in {"ok", "denied", "invalid"}
                  /\ \A x \in DOMAIN exceptions, action \in {"approve", "reject"} :
                        (exceptions[x].booking = id /\ exceptions[x].status = "pending") =>
                            PolicyExceptionApprovalView(bookings, exceptions, policy, now,
                                                        user, x, action)
                                = PolicyExceptionApprovalView(bookings, exceptions, policy,
                                                              b.start, user, x, action)
                  /\ BookingUpdateView(bookings, exceptions, policy, now,
                                       user, id, b.lab, b.start, b.end)
                         = BookingUpdateView(bookings, exceptions, policy, b.start,
                                             user, id, b.lab, b.start, b.end)

\* ---- C23
\* Slot s of the day (a time of day) lies inside the working window and no
\* active booking of the lab overlaps it on that date.
FreeSlot(db, lab, date, s) ==
    /\ s >= WORK_START_HOUR /\ s + 1 <= WORK_END_HOUR
    /\ ~\E j \in DOMAIN db :
          /\ db[j].lab = lab /\ Active(db[j])
          /\ db[j].start < date * DayLen + s + 1
          /\ db[j].end > date * DayLen + s

WindowCount(duration) ==
    IF duration < SLOT_MINUTES THEN 1
    ELSE CHOOSE k \in 1..MaxHalfSlots :
             k * SLOT_MINUTES <= duration /\ duration < (k + 1) * SLOT_MINUTES

\* C23: for a requested duration the availability query works with
\* k = max(1, duration // 30) slots, and reports the window that starts at
\* slot s exactly when the k slots s..s+k-1 all lie in the working window
\* and none of them overlaps an active booking of the lab; each window is
\* reported once, from the start of its first slot to the end of its last.
C23_SlidingWindow ==
    \A lab \in Labs, date \in 0..MaxQueryDate, duration \in QueryDurations :
        LET k == WindowCount(duration)
            reported == availability_for_date(bookings, lab, date, duration).available_slots
        IN  /\ \A s \in 0..(DayLen - 1) :
                  (\E n \in DOMAIN reported : reported[n] = <<s, s + k>>)
                      <=> \A idx \in s..(s + k - 1) : FreeSlot(bookings, lab, date, idx)
            /\ \A n \in DOMAIN reported :
                  /\ reported[n][2] = reported[n][1] + k
                  /\ \A m \in DOMAIN reported : m < n => reported[m][1] < reported[n][1]

\* A query for two slots has just been answered on a day whose first slot is
\* taken by an active booking and whose other slots are free: the window
\* over the taken slot is not reported, the next one is.
C23_Witness ==
    /\ lastOp.op = "availability"
    /\ lastOp.duration = 2 * SLOT_MINUTES
    /\ lastOp.date = 0
    /\ \E j \in DOMAIN bookings :
          /\ Active(bookings[j]) /\ bookings[j].lab = lastOp.lab
          /\ bookings[j].start = WORK_START_HOUR /\ bookings[j].end = WORK_START_HOUR + 1
    /\ lastOp.response.available_slots = <<<<WORK_START_HOUR + 1, WORK_START_HOUR + 3>>>>

\* ---- C24
OutsideWindow(pol, t, date) ==
    \/ date > DateOf(t + pol.max_advance_booking_days * DayLen)
    \/ date < DateOf(t + pol.advance_notice_days * DayLen)

\* C24: under an active policy a query for a date after the last bookable
\* date, or before the first one, is answered with no available slot, by the
\* utility function, by the availability endpoint and by the model's slot
\* calculator.
C24_OutsideWindowEmpty ==
    policy.is_active =>
        \A lab \in Labs, date \in 0..MaxQueryDate, duration \in QueryDurations :
            OutsideWindow(policy, now, date) =>
                /\ get_available_time_slots(bookings, policy, now, lab, date) = <<>>
                /\ availability_for_date(bookings, lab, date, duration).available_slots = <<>>
                /\ available_time_slots_for_date(bookings, policy, lab, date) = <<>>

\* ---- C25
\* C25: for a request that would be accepted on an empty store, the grid and
\* the creation path agree: the one-slot window of that interval is missing
\* from the reported windows exactly when the creation is refused for
\* conflict.
C25_GridAgreesWithCreation ==
    \A user \in Users, lab \in Labs, date \in 0..MaxQueryDate,
       s \in WORK_START_HOUR..(WORK_END_HOUR - 1) :
        LET start == date * DayLen + s
            reported == availability_for_date(bookings, lab, date,
                                              SLOT_MINUTES).available_slots
            listed == \E n \in DOMAIN reported : reported[n] = <<s, s + 1>>
        IN  create_booking(<<>>, <<>>, policy, now, user, lab, start, start + 1).result = "ok"
                => (~listed
                      <=> create_booking(bookings, exceptions, policy, now,
                                         user, lab, start, start + 1).result = "conflict")

\* ---- C26
RealFrequencies == {"daily", "weekly", "biweekly", "monthly"}

\* The step of a frequency, in ticks.
Step(frequency) ==
    DayLen * (CASE frequency = "daily" -> 1
                [] frequency = "weekly" -> 7
                [] frequency = "biweekly" -> 14
                [] frequency = "monthly" -> 30)

\* The occurrences k of the parent that fall on or before the until-date,
\* up to the cap.
Occurrences(parent, frequency, until) ==
    {k \in 1..max_instances : DateOf(parent.start + k * Step(frequency)) <= until}

\* No stored booking of the parent's lab overlaps occurrence k.
Unoccupied(db, parent, frequency, k) ==
    ~\E i \in DOMAIN db :
        /\ db[i].lab = parent.lab
        /\ db[i].start < parent.end + k * Step(frequency)
        /\ db[i].end > parent.start + k * Step(frequency)

\* C26: when no stored booking overlaps any occurrence, the expansion of a
\* parent adds exactly one child for every k >= 1 (up to the cap) whose date
\* parent.start + k * step is on or before the until-date; the k-th child
\* has the parent's interval moved by k steps, its lab, requester and status,
\* and the parent as its parent; the rows already stored stay as they are.
C26_OneChildPerOccurrence ==
    Len(bookings) <= MaxBookings =>
        \A pid \in DOMAIN bookings, frequency \in RealFrequencies :
            \A until \in UntilDates(bookings[pid], frequency) :
                LET parent == bookings[pid]
                    K == Occurrences(parent, frequency, until)
                    out == create_recurring_bookings(bookings, exceptions, policy, now,
                                                     pid, frequency, until).bookings
                IN  (\A k \in K : Unoccupied(bookings, parent, frequency, k)) =>
                        /\ Len(out) = Len(bookings) + Cardinality(K)
                        /\ SubSeq(out, 1, Len(bookings)) = bookings
                        /\ \A k \in K :
                              LET c == out[Len(bookings) + k]
                              IN  /\ c.start = parent.start + k * Step(frequency)
                                  /\ c.end = parent.end + k * Step(frequency)
                                  /\ c.lab = parent.lab
                                  /\ c.requester = parent.requester
                                  /\ c.parent_booking = pid
                                  /\ c.status = parent.status

\* ---- C27
\* Occurrence k can be stored: no blocking booking overlaps it and the
\* validation of the new row passes.
Creatable(db, pol, t, pid, frequency, k) ==
    LET parent == db[pid]
        start == parent.start + k * Step(frequency)
        end == parent.end + k * Step(frequency)
    IN  /\ ~\E i \in DOMAIN db :
              /\ db[i].lab = parent.lab /\ db[i].start < end /\ db[i].end > start
              /\ db[i].status \notin {"cancelled", "rejected"}
        /\ clean(db, pol, t, [NewBooking(parent.requester, parent.lab, start, end)
                                 EXCEPT !.parent_booking = pid], 0) = "ok"

\* C27: the expansion skips an occurrence that is blocked or fails its
\* validation and goes on: the rows already stored stay, the rows added are
\* exactly the occurrences that can be stored, each at parent.start + k *
\* step, in order, also after a skipped one, and the list returned names
\* exactly the rows added.
C27_SkipAndContinue ==
    Len(bookings) <= MaxBookings =>
        \A pid \in DOMAIN bookings, frequency \in RealFrequencies :
            \A until \in UntilDates(bookings[pid], frequency) :
                LET parent == bookings[pid]
                    K == {k \in Occurrences(parent, frequency, until) :
                             Creatable(bookings, policy, now, pid, frequency, k)}
                    out == create_recurring_bookings(bookings, exceptions, policy, now,
                                                     pid, frequency, until).bookings
                    new == (Len(bookings) + 1)..Len(out)
                    returned == created_bookings(bookings, policy, now, pid, frequency,
                                                 until)
                IN  /\ Len(out) = Len(bookings) + Cardinality(K)
                    /\ SubSeq(out, 1, Len(bookings)) = bookings
                    /\ \A k \in K : \E j \in new :
                          /\ out[j].start = parent.start + k * Step(frequency)
                          /\ out[j].end = parent.end + k * Step(frequency)
                          /\ out[j].parent_booking = pid
                    /\ \A i, j \in new : i < j => out[i].start < out[j].start
                    /\ returned = [n \in 1..Cardinality(K) |-> Len(bookings) + n]

\* An expansion has just stored the first and the third daily occurrence of
\* a parent, the second being taken by another booking.
C27_Witness ==
    /\ lastOp = Op("recur", "ok")
    /\ \E p, b, c1, c3 \in DOMAIN bookings :
          /\ bookings[p].parent_booking = 0 /\ bookings[b].parent_booking = 0
          /\ bookings[b].start = bookings[p].start + 2 * DayLen
          /\ bookings[c1].parent_booking = p
          /\ bookings[c1].start = bookings[p].start + DayLen
          /\ bookings[c3].parent_booking = p
          /\ bookings[c3].start = bookings[p].start + 3 * DayLen
          /\ ~\E c2 \in DOMAIN bookings :
                /\ bookings[c2].parent_booking = p
                /\ bookings[c2].start = bookings[p].start + 2 * DayLen

\* ---- C28
\* C28: whatever the frequency and however far the until-date, an expansion
\* adds at most 52 rows, none later than the 52nd occurrence and none on a
\* date after the until-date; a frequency that is none of the four adds
\* nothing.
C28_Capped ==
    Len(bookings) <= MaxBookings =>
        \A pid \in DOMAIN bookings, frequency \in Frequencies :
            \A until \in UntilDates(bookings[pid], frequency) :
                LET parent == bookings[pid]
                    out == create_recurring_bookings(bookings, exceptions, policy, now,
                                                     pid, frequency, until).bookings
                    new == (Len(bookings) + 1)..Len(out)
                IN  /\ Len(out) - Len(bookings) <= max_instances
                    /\ frequency \notin RealFrequencies => out = bookings
                    /\ frequency \in RealFrequencies =>
                          \A j \in new :
                              /\ DateOf(out[j].start) <= until
                              /\ out[j].start <= parent.start
                                                     + max_instances * Step(frequency)

\* An expansion has just stored as many children of one parent as the cap
\* allows.
C28_Witness ==
    /\ lastOp = Op("recur", "ok")
    /\ \E p \in DOMAIN bookings :
          Cardinality({i \in DOMAIN bookings : bookings[i].parent_booking = p})
              = max_instances

\* ---- C29
\* C29: cancel-series on a parent sets to cancelled exactly its children
\* that start at or after now and are pending or approved, and leaves every
\* other booking as it is.
C29_CancelSeriesFrame ==
    \A pid \in DOMAIN bookings :
        LET out == cancel_recurring_series(bookings, exceptions, now, pid).bookings
        IN  /\ Len(out) = Len(bookings)
            /\ \A i \in DOMAIN bookings :
                  out[i] = IF /\ bookings[i].parent_booking = pid
                              /\ bookings[i].start >= now
                              /\ bookings[i].status \in {"pending", "approved"}
                           THEN [bookings[i] EXCEPT !.status = "cancelled"]
                           ELSE bookings[i]

\* ---- C30
\* The bookings reached from i by following parent_booking at most n times.
RECURSIVE Ancestors(_, _, _)
Ancestors(db, i, n) ==
    IF n = 0 \/ db[i].parent_booking \notin DOMAIN db THEN {}
    ELSE {db[i].parent_booking} \cup Ancestors(db, db[i].parent_booking, n - 1)

\* C30: every booking has no parent or a stored one, no booking is among its
\* own ancestors, and every row an expansion adds has as its parent the
\* booking that was expanded.
C30_ParentRelation ==
    /\ \A i \in DOMAIN bookings :
          /\ bookings[i].parent_booking \in {0} \cup DOMAIN bookings
          /\ i \notin Ancestors(bookings, i, Len(bookings))
    /\ Len(bookings) <= MaxBookings =>
          \A pid \in DOMAIN bookings, frequency \in Frequencies :
              \A until \in UntilDates(bookings[pid], frequency) :
                  LET out == create_recurring_bookings(bookings, exceptions, policy, now,
                                                       pid, frequency, until).bookings
                  IN  \A j \in (Len(bookings) + 1)..Len(out) :
                          out[j].parent_booking = pid

\* An expansion has just been made of a booking that is itself a child: the
\* store holds a parent, its child and the child's child.
C30_Witness ==
    /\ lastOp = Op("recur", "ok")
    /\ \E i \in DOMAIN bookings :
          /\ bookings[i].parent_booking \in DOMAIN bookings
          /\ bookings[bookings[i].parent_booking].parent_booking \in DOMAIN bookings

\* ---- C31
\* C31: the audit log only grows: every step of the booking operations
\* (create, edit, delete, lifecycle action, exception request and
\* resolution) leaves every row already written in its place with its actor,
\* action, entity and timestamp.
C31_AuditOnlyGrows ==
    [][/\ Len(audit') >= Len(audit)
       /\ SubSeq(audit', 1, Len(audit)) = audit]_vars

\* A deletion has just been audited while the log still holds the row of an
\* earlier edit.
C31_Witness ==
    /\ Len(audit) = 2
    /\ audit[1].action = "booking_updated"
    /\ audit[2].action = "booking_deleted"

\* ---- C32
\* The role each dashboard address is for.
DashboardRole(url) ==
    CASE url = "student_dashboard" -> "student"
      [] url = "lecturer_dashboard" -> "lecturer"
      [] url = "program_admin_dashboard" -> "program_admin"
      [] url = "lab_technician_dashboard" -> "lab_technician"
      [] url = "it_support_dashboard" -> "it_support"
      [] url = "manager_dashboard" -> "manager"

\* C32: a dashboard page is shown only to a logged-in user whose role is the
\* role of that dashboard; the answer to a request for a dashboard by anyone
\* else is a redirect.
C32_DashboardOnlyForRole ==
    /\ (location.url \in Dashboards /\ location.status = 200) =>
          /\ session.user # None
          /\ role(session.user) = DashboardRole(location.url)
    /\ \A user \in SiteUsers \cup {None}, url \in Dashboards :
          LET resp == DashboardView(user, url)
          IN  IF user # None /\ role(user) = DashboardRole(url)
              THEN resp.status = 200
              ELSE resp.status = 302

\* A student has asked for the programme administrator's dashboard and has
\* been redirected.
C32_Witness ==
    /\ session.user = "stu"
    /\ lastOp = [op |-> "program_admin_dashboard", result |-> 302, user |-> "stu"]
    /\ location.url = "dashboard_redirect"

\* ---- C33
\* The browser of a user is waiting for a dashboard or for the dashboard
\* redirect.
DashboardRequested ==
    /\ session.user # None
    /\ location.status = 0
    /\ location.url \in Dashboards \cup {"dashboard_redirect"}

\* The user has their own dashboard on the screen.
OwnDashboardServed ==
    /\ session.user # None
    /\ location.status = 200
    /\ location.url \in Dashboards
    /\ DashboardRole(location.url) = role(session.user)

\* C33: whatever dashboard address a logged-in user of one of the six roles
\* asks for, the chain of redirects ends, with the user's own dashboard on
\* the screen.
C33_EndsOnOwnDashboard == DashboardRequested ~> OwnDashboardServed

\* C33, the steps of the chain: the dashboard redirect answers with the
\* user's own dashboard, that dashboard admits the user, and no chain takes
\* more than two redirects.
C33_RedirectChain ==
    /\ \A user \in SiteUsers :
          \A resp \in dashboard_redirect(user) :
              /\ resp.status = 302
              /\ resp.to \in Dashboards
              /\ DashboardRole(resp.to) = role(user)
              /\ DashboardView(user, resp.to).status = 200
    /\ session.user # None => location.hops <= 2

\* A lab technician refused by the manager's dashboard has been sent back
\* through the dashboard redirect and has their own dashboard on the screen.
C33_Witness ==
    /\ session.user = "tech"
    /\ location = [url |-> "lab_technician_dashboard", status |-> 200, hops |-> 2]

\* ---- C34
ProgramAdmins == {u \in Emails : role(u) = "program_admin"}

\* C34: an approve request of a programme administrator is never refused for
\* lack of permission, on any route (status action, detail page, bulk): on a
\* stored booking it succeeds when the booking is pending and fails as
\* invalid otherwise.
C34_ProgramAdminApproves ==
    /\ ProgramAdmins # {}
    /\ \A user \in ProgramAdmins, id \in DOMAIN bookings, n \in {"", "note"} :
          LET expected == IF bookings[id].status = "pending" THEN "ok" ELSE "invalid"
          IN  /\ booking_status_action(bookings, exceptions, user, id, "approve",
                                       n).result = expected
              /\ BookingDetailView_post(bookings, exceptions, user, id, "approve",
                                        n).result = expected
              /\ bulk_booking_action(bookings, exceptions, user, {id}, "approve",
                                     n).result = "ok"

\* The programme administrator has just approved a student's booking.
C34_Witness ==
    /\ lastOp = Op("approve", "ok")
    /\ \E id \in DOMAIN bookings :
          /\ bookings[id].requester = "stu"
          /\ bookings[id].status = "approved"
          /\ bookings[id].approved_by = "padm"

\* ---- C35
\* C35: when an approve and a cancel of the same booking have both loaded it
\* as pending and both have been carried out, the booking is cancelled, as
\* after either serial order: the approval does not overwrite the stored
\* cancellation.
C35_CancelSurvivesApprove ==
    \A r1, r2 \in 1..NumRequests :
        (/\ requests[r1].kind = "approve" /\ requests[r2].kind = "cancel"
         /\ requests[r1].pc = "done" /\ requests[r2].pc = "done"
         /\ requests[r1].id = requests[r2].id
         /\ requests[r1].seen.status = "pending" /\ requests[r2].seen.status = "pending"
         /\ requests[r1].result = "ok" /\ requests[r2].result = "ok")
            => bookings[requests[r1].id].status = "cancelled"

\* ---- C36
\* C36: a resolution request (approve or reject) for a policy exception by a
\* user whose role is not manager is refused and leaves the exception and
\* the bookings as they are.
C36_OnlyManagerResolves ==
    \A user \in Users, x \in DOMAIN exceptions, action \in {"approve", "reject"} :
        role(user) # "manager" =>
            LET out == PolicyExceptionApprovalView(bookings, exceptions, policy, now,
                                                   user, x, action)
            IN  /\ out.result = "denied"
                /\ out.exceptions = exceptions
                /\ out.bookings = bookings

\* ---- C38
Resolved(x) == x.status \in {"approved", "rejected"}

\* C38: once a policy exception is approved or rejected, a further review
\* request changes neither its status, nor its reviewer, nor the status of
\* its booking.
C38_ResolvedOnce ==
    \A user \in Users, x \in DOMAIN exceptions, action \in {"approve", "reject"} :
        Resolved(exceptions[x]) =>
            LET out == PolicyExceptionApprovalView(bookings, exceptions, policy, now,
                                                   user, x, action)
                id == exceptions[x].booking
            IN  /\ out.exceptions[x].status = exceptions[x].status
                /\ out.exceptions[x].reviewed_by = exceptions[x].reviewed_by
                /\ out.bookings[id].status = bookings[id].status

\* ---- C39
\* C39: under an active policy every unflagged booking that validation or
\* creation accepts lies inside the working window of one calendar day: its
\* start and end are on the same date and work_start <= start < end <=
\* work_end in time of day.
C39_WithinOneWorkingDay ==
    policy.is_active =>
        \A user \in Users, lab \in Labs, iv \in PolicyCandidates :
            LET b == Candidate(user, lab, iv, FALSE)
                inside == /\ DateOf(iv[1]) = DateOf(iv[2])
                          /\ policy.work_start_hour <= TimeOf(iv[1])
                          /\ TimeOf(iv[1]) < TimeOf(iv[2])
                          /\ TimeOf(iv[2]) <= policy.work_end_hour
            IN  /\ clean(bookings, policy, now, b, 0) = "ok" => inside
                /\ create_booking(bookings, exceptions, policy, now,
                                  user, lab, iv[1], iv[2]).result = "ok" => inside

\* ---- C37
\* C37: every stored booking whose status is approved has approved_by set.
C37_ApprovedHasApprover ==
    \A i \in DOMAIN bookings :
        bookings[i].status = "approved" => bookings[i].approved_by # None

\* ---- C40
\* The codes a browser may submit: the ones in use and one that is never
\* issued.
SubmittedCodes == Codes \cup {"000000"}

\* verify_email, submitted with otp_code in the current state.
Verification(otp_code) == verify_email(accounts, otps, session, now, otp_code)

\* C40: a verification logs in only the session's pending user, and only by
\* consuming one stored code of that user and of the session's purpose that
\* matches, is unused and has not expired; a used code stays used, so it
\* completes one verification at most; a verification that fails, also the
\* one that marks an expired code used, logs nobody in and activates nobody;
\* registration, the password step and the resending of a code log nobody in
\* and activate nobody, so that a registered account is active only after a
\* registration code of its own has been used.
C40_OtpLogin ==
    /\ \A otp_code \in SubmittedCodes :
          LET out == Verification(otp_code)
              purpose == IF session.otp_purpose = None THEN "registration"
                         ELSE session.otp_purpose
          IN  /\ out.result = "ok" =>
                    /\ session.pending_email # None
                    /\ out.session.user = session.pending_email
                    /\ \E i \in DOMAIN otps :
                          /\ otps[i].user = session.pending_email
                          /\ otps[i].purpose = purpose
                          /\ otps[i].otp_code = otp_code
                          /\ ~otps[i].is_used
                          /\ now <= otps[i].expires_at
                          /\ out.otps = [otps EXCEPT ![i].is_used = TRUE]
              /\ out.result # "ok" =>
                    /\ out.session.user = session.user
                    /\ out.accounts = accounts
              /\ out.result = "expired" =>
                    \E i \in DOMAIN otps :
                        /\ ~otps[i].is_used /\ now > otps[i].expires_at
                        /\ out.otps = [otps EXCEPT ![i].is_used = TRUE]
              /\ \A i \in DOMAIN otps : otps[i].is_used => out.otps[i].is_used
    /\ \A email \in Emails, otp \in Codes, mailed \in BOOLEAN, password_ok \in BOOLEAN :
          LET reg == register(accounts, otps, session, now, email, otp, mailed)
              log == login_with_otp(accounts, otps, session, now, email, password_ok, otp,
                                    mailed)
              res == resend_otp(accounts, otps, session, now, otp, mailed)
          IN  /\ reg.session.user = session.user
              /\ \A e \in Emails : reg.accounts[e].is_active = accounts[e].is_active
              /\ log.session.user = session.user /\ log.accounts = accounts
              /\ res.session.user = session.user /\ res.accounts = accounts
    /\ accounts["new"].is_active =>
          \E i \in DOMAIN otps :
              /\ otps[i].user = "new" /\ otps[i].purpose = "registration"
              /\ otps[i].is_used
    /\ session.user # None => accounts[session.user].is_active

\* The address registered in this run has just been logged in by a fresh
\* registration code, while an older code of the same digits, expired and
\* never submitted, is still stored unused.
C40_Witness ==
    /\ lastOp = Op("verify", "ok")
    /\ session.user = "new"
    /\ accounts["new"].is_active
    /\ \E i, j \in DOMAIN otps :
          /\ i < j
          /\ otps[i].user = "new" /\ otps[j].user = "new"
          /\ otps[i].otp_code = otps[j].otp_code
          /\ otps[i].purpose = "registration" /\ otps[j].purpose = "registration"
          /\ ~otps[i].is_used /\ now > otps[i].expires_at
          /\ otps[j].is_used

=============================================================================
